---- MODULE Spec2Model ----
(***************************************************************************)
(* dlock: disabling the Android lock screen over adb.                      *)
(*                                                                         *)
(* The module models pkg/dlock: the batch operation ProcessDevices with    *)
(* one goroutine per device (DisableLockscreenOnDeviceAsync), the shared   *)
(* ProcessingStats and the WaitGroup, and the public cascade operation     *)
(* DisableLockScreen; and, each called alone and followed command by       *)
(* command, one strategy, WaitForDeviceReady and                           *)
(* ValidateLockScreenRemoval.  External adb commands are the inputs: what a *)
(* command returns is drawn from a small set of results, and every         *)
(* function of the package is computed from those results as its code      *)
(* computes it.                                                            *)
(*                                                                         *)
(* Granularity of the batch: a step of a goroutine runs its code up to     *)
(* and including its next access to shared state (the statistics object    *)
(* or the WaitGroup); the commands and sleeps of one function touch no     *)
(* shared state and form one step.                                         *)
(***************************************************************************)
EXTENDS Integers, Sequences, FiniteSets, TLC

\* ------------------------------------------------------------- bounds
\* The longest device list handed to ProcessDevices.
MaxDevices == 2

\* The most external commands one orchestration issues before its
\* statistics update.
MaxRounds == 2
\* The most calls the goroutines make to one ProcessingStats.
MaxCalls == 3
\* The longest list of target devices GetConnectedDevices filters by.
MaxFilter == 2
\* The longest wait, in minutes, WaitForDeviceReady is called with besides
\* the orchestration's.
MaxMinutes == 2
\* The longest scripted sequence of polling results after a reboot; the
\* device stays unreachable after the script's end.
MaxPolls == 2

\* The device identifiers.
Targets == {"D1", "D2"}

\* The goroutines of a batch: goroutine i handles devices[i].
Procs == 1..MaxDevices

\* The goroutines of a batch: 0 is the caller of ProcessDevices, the others
\* are the orchestrations it launches.
Threads == 0..MaxDevices

SeqsUpTo(S, n) == UNION {[1..k -> S] : k \in 0..n}

\* ------------------------------------------------------ adb commands
\* What the external process did: it exited 0, exited non-zero, was killed
\* by the 30 s timeout, or could not be started.  text is what it wrote.
\* expired is whether the deadline of the context has passed when the
\* error is looked at: it has for a killed process, it has not for one
\* that never started, and for one that exited by itself it has when the
\* 30 s ran out between its exit and the look.
ProcessRuns(texts) ==
    {r \in [kind : {"exit0", "exitN", "timeout", "nostart"}, text : texts,
            expired : BOOLEAN] :
        /\ r.kind = "timeout" => r.expired
        /\ r.kind = "nostart" => ~r.expired}

\* strings.TrimSpace on the texts of the model.
TrimSpace(s) ==
    CASE s = " x\n" -> "x"
      [] s = "\n"   -> ""
      [] OTHER      -> s

\* runADBCommand: (success, trimmed output, error text).  CombinedOutput
\* returns an error for every run that did not exit 0, and the output is
\* dropped then; the error text is "Command timed out" when ctx.Err() is
\* DeadlineExceeded and the error's own text otherwise.  With no error the
\* exit code is 0, so success is true.
runADBCommand(run) ==
    IF run.kind # "exit0"
    THEN [ok  |-> FALSE, out |-> "",
          err |-> IF run.expired THEN "Command timed out"
                  ELSE IF run.kind = "exitN" THEN "exit status 1"
                  ELSE "exec: not started"]
    ELSE [ok |-> TRUE, out |-> TrimSpace(run.text), err |-> ""]

\* The (success, output) pairs a command returns when the text it writes
\* ranges over texts; the callers below drop the error text.
Returns(texts) ==
    {[ok |-> runADBCommand(r).ok, out |-> runADBCommand(r).out] :
        r \in ProcessRuns(texts)}

\* Whether a command succeeded, for the callers that read nothing else.
Succeeds == {r.ok : r \in Returns({"", "x", " x\n", "\n"})}

\* strings.ToLower on the texts of the model.
ToLower(s) ==
    CASE s = "isDeviceSecure=true"      -> "isdevicesecure=true"
      [] s = "isKeyguardSecure=true"    -> "iskeyguardsecure=true"
      [] s = "isDeviceSecure=false"     -> "isdevicesecure=false"
      [] s = "passwordQuality=65536"    -> "passwordquality=65536"
      [] s = "minimumPasswordLength=4"  -> "minimumpasswordlength=4"
      [] s = "TRUE"                     -> "true"
      [] s = "mDreamingLockscreen=true" -> "mdreaminglockscreen=true"
      [] s = "mDreamingLockscreen=false" -> "mdreaminglockscreen=false"
      [] s = "mShowingLockscreen=true"  -> "mshowinglockscreen=true"
      [] s = "KeyguardController:"      -> "keyguardcontroller:"
      [] s = "  mKeyguardShowing=true"  -> "  mkeyguardshowing=true"
      [] s = "KeyguardController: mKeyguardShowing=true"
                                -> "keyguardcontroller: mkeyguardshowing=true"
      [] s = "mWakefulness=Asleep"      -> "mwakefulness=asleep"
      [] s = "mWakefulness=Awake"       -> "mwakefulness=awake"
      [] s = "Display Power: state=OFF" -> "display power: state=off"
      [] s = "mWakefulness=Dozing"      -> "mwakefulness=dozing"
      [] s = "mResumedActivity: Launcher" -> "mresumedactivity: launcher"
      [] s = "mResumedActivity: Keyguard" -> "mresumedactivity: keyguard"
      [] s = "mFocusedActivity: Bouncer"  -> "mfocusedactivity: bouncer"
      [] OTHER                          -> s

\* The strings the code searches for that occur in a (lower-case) text of
\* the model.
Needles(s) ==
    CASE s = "isdevicesecure=true"      -> {"isdevicesecure=true", "true"}
      [] s = "iskeyguardsecure=true"    -> {"iskeyguardsecure=true",
                                            "secure=true", "true"}
      [] s = "secure=true"              -> {"secure=true", "true"}
      [] s = "enabled=true"             -> {"enabled=true", "true"}
      [] s = "passwordquality=65536"    -> {"passwordquality"}
      [] s = "minimumpasswordlength=4"  -> {"minimumpasswordlength"}
      [] s = "mdreaminglockscreen=true" -> {"mdreaminglockscreen",
                                            "mdreaminglockscreen=true",
                                            "lockscreen", "true"}
      [] s = "mdreaminglockscreen=false" -> {"mdreaminglockscreen",
                                             "lockscreen"}
      [] s = "mshowinglockscreen=true"  -> {"lockscreen", "true"}
      [] s = "keyguardcontroller:"      -> {"keyguardcontroller", "keyguard"}
      [] s = "  mkeyguardshowing=true"  -> {"keyguardshowing=true",
                                            "keyguard", "true"}
      [] s = "keyguardcontroller: mkeyguardshowing=true"
                                        -> {"keyguardcontroller",
                                            "keyguardshowing=true",
                                            "keyguard", "true"}
      [] s = "mwakefulness=asleep"      -> {"mwakefulness", "asleep"}
      [] s = "mwakefulness=awake"       -> {"mwakefulness"}
      [] s = "mwakefulness=dozing"      -> {"mwakefulness", "dozing"}
      [] s = "display power: state=off" -> {"display power"}
      [] s = "mresumedactivity: launcher" -> {"mresumedactivity"}
      [] s = "mresumedactivity: keyguard" -> {"mresumedactivity", "keyguard"}
      [] s = "mfocusedactivity: bouncer"  -> {"mfocusedactivity", "bouncer"}
      [] s = "D1\tdevice"                -> {"\tdevice"}
      [] s = "D2\tdevice"                -> {"\tdevice"}
      [] OTHER                          -> {s}

\* strings.Contains on the (lower-case) texts of the model.
Contains(s, sub) == sub \in Needles(s)

\* strings.Split(output, "\n") on the texts of the model.
SplitLines(s) ==
    CASE s = "KeyguardController:\n  mKeyguardShowing=true"
                -> <<"KeyguardController:", "  mKeyguardShowing=true">>
      [] s = "mWakefulness=Awake\nDisplay Power: state=OFF"
                -> <<"mWakefulness=Awake", "Display Power: state=OFF">>
      [] s = "mResumedActivity: Keyguard\nmFocusedActivity: Bouncer"
                -> <<"mResumedActivity: Keyguard", "mFocusedActivity: Bouncer">>
      [] OTHER  -> <<s>>

\* ------------------------------------------------ CheckDevicePermissions
\* CheckDevicePermissions, had it not tested the settings list for emptiness.
CheckDevicePermissions_NoEmptyTest(shell, list) ==
    IF ~shell.ok THEN FALSE
    ELSE IF ~list.ok THEN FALSE
    ELSE TRUE

\* shell: the result of `shell echo 'test'`; list: of `shell settings list
\* secure`, which is issued only when the first succeeded.
CheckDevicePermissions(shell, list) ==
    IF ~shell.ok THEN FALSE
    ELSE IF ~list.ok \/ list.out = "" THEN FALSE
    ELSE TRUE

\* The results of its two commands.
ShellResults == Returns({"", "x", " x\n", "\n"})

ListResults == Returns({"", "x", " x\n", "\n"})

\* ----------------------------------------------- CheckExistingLockScreen
\* The results of the seven commands of the five heuristics.
LockCommandResults ==
    [trust       : Returns({"", "isDeviceSecure=true", "isKeyguardSecure=true",
                            "isDeviceSecure=false"}),
     getDisabled : Returns({"", "true", "false", "TRUE"}),
     keyguard    : Returns({"", "secure=true", "enabled=true", "secure=false"}),
     pattern     : Returns({"", "null", "0", "1"}),
     pwtype      : Returns({"", "null", "0", "65536"}),
     lsDisabled  : Returns({"", "null", "0", "1"}),
     policy      : Returns({"", "passwordQuality=65536",
                            "minimumPasswordLength=4", "none"})]

\* LockSettingFires, had the lockscreen.disabled test not looked at what
\* locksettings had reported.
LockSettingFires_NoSuppression(name, res, disabledByLockSettings) ==
    /\ res.ok /\ res.out # "" /\ res.out # "null"
    /\ \/ name = "lock_pattern_enabled" /\ res.out = "1"
       \/ name = "password_type" /\ res.out # "0"
       \/ name = "lockscreen.disabled" /\ res.out = "0"

\* One entry of the lockMethods loop (heuristic 4): the command's name and
\* result, and whether locksettings reported the lock screen disabled.
LockSettingFires(name, res, disabledByLockSettings) ==
    /\ res.ok /\ res.out # "" /\ res.out # "null"
    /\ \/ name = "lock_pattern_enabled" /\ res.out = "1"
       \/ name = "password_type" /\ res.out # "0"
       \/ name = "lockscreen.disabled" /\ res.out = "0"
            /\ ~disabledByLockSettings

CheckExistingLockScreen(r) ==
    LET lockScreenDisabledLockSettingsMethod ==
            r.getDisabled.ok /\ Contains(ToLower(r.getDisabled.out), "true")
    IN
    IF /\ r.trust.ok /\ r.trust.out # ""
       /\ \/ Contains(ToLower(r.trust.out), "isdevicesecure=true")
          \/ Contains(ToLower(r.trust.out), "iskeyguardsecure=true")
    THEN [present |-> TRUE, by |-> 1]
    ELSE IF r.getDisabled.ok /\ ~lockScreenDisabledLockSettingsMethod
    THEN [present |-> TRUE, by |-> 2]
    ELSE IF /\ r.keyguard.ok /\ r.keyguard.out # ""
            /\ \/ Contains(ToLower(r.keyguard.out), "secure=true")
               \/ Contains(ToLower(r.keyguard.out), "enabled=true")
    THEN [present |-> TRUE, by |-> 3]
    ELSE IF \/ LockSettingFires("lock_pattern_enabled", r.pattern,
                                lockScreenDisabledLockSettingsMethod)
            \/ LockSettingFires("password_type", r.pwtype,
                                lockScreenDisabledLockSettingsMethod)
            \/ LockSettingFires("lockscreen.disabled", r.lsDisabled,
                                lockScreenDisabledLockSettingsMethod)
    THEN [present |-> TRUE, by |-> 4]
    ELSE IF /\ r.policy.ok /\ r.policy.out # ""
            /\ \/ Contains(ToLower(r.policy.out), "passwordquality")
               \/ Contains(ToLower(r.policy.out), "minimumpasswordlength")
    THEN [present |-> TRUE, by |-> 5]
    ELSE [present |-> FALSE, by |-> 0]

\* hasLock, over every combination of command results.
LockScreenResults ==
    {CheckExistingLockScreen(r).present : r \in LockCommandResults}

\* ------------------------------------------------- the four strategies
\* Each strategy reads only whether its commands succeeded: a and b are
\* the success flags of its first and second command.
disableLockscreenMethod1(a, b) == b

disableLockscreenMethod2(a, b) == a

disableLockscreenMethod3(a, b) == a

\* disableLockscreenMethod4, had it required both commands to succeed.
disableLockscreenMethod4_Both(a, b) ==
    LET successCount == (IF a THEN 1 ELSE 0) + (IF b THEN 1 ELSE 0)
    IN  successCount > 1

disableLockscreenMethod4(a, b) ==
    LET successCount == (IF a THEN 1 ELSE 0) + (IF b THEN 1 ELSE 0)
    IN  successCount > 0

\* methods[k](deviceSerial), for the command results a and b.
Method(k, a, b) ==
    CASE k = 1 -> disableLockscreenMethod1(a, b)
      [] k = 2 -> disableLockscreenMethod2(a, b)
      [] k = 3 -> disableLockscreenMethod3(a, b)
      [] k = 4 -> disableLockscreenMethod4(a, b)

\* The number of strategies in the methods slice.
NumMethods == 4

\* What a call of methods[k] does: it returns true ("ok"), returns false
\* ("fail"), or panics ("panic", which the caller's deferred recover takes).
MethodOutcomes(k) ==
    {IF Method(k, a, b) THEN "ok" ELSE "fail" : a \in Succeeds, b \in Succeeds}
        \cup {"panic"}

\* ------------------------------------------------------- RebootDevice
RebootDevice(reboot) == reboot.ok

RebootResults == {RebootDevice(r) : r \in Returns({"", "x"})}

\* -------------------------------------------------- WaitForDeviceReady
\* One polling attempt as the device answers it: "absent" (get-state
\* fails), "noshell" (get-state succeeds, the shell command fails), "ready"
\* (both succeed).  A script lists the answers to the first attempts; the
\* device is absent after the script's end.
PollAnswers == {"absent", "noshell", "ready"}

PollScripts == SeqsUpTo(PollAnswers, MaxPolls)

PollAt(script, n) == IF n <= Len(script) THEN script[n] ELSE "absent"

\* Whether `get-state`, and then `shell echo 'test'`, succeed in an attempt.
GetStateOk(answer) == answer # "absent"

ShellOk(answer) == answer = "ready"

\* The polling loop from `attempt` on.
RECURSIVE WaitLoop(_, _, _)
WaitLoop(script, attempt, maxAttempts) ==
    IF ~(attempt < maxAttempts) THEN FALSE
    ELSE IF GetStateOk(PollAt(script, attempt + 1))
            /\ ShellOk(PollAt(script, attempt + 1)) THEN TRUE
    ELSE WaitLoop(script, attempt + 1, maxAttempts)

WaitForDeviceReady(script, maxWaitMinutes) ==
    WaitLoop(script, 0, maxWaitMinutes * 12)

\* The orchestration waits up to 5 minutes.
WaitMinutes == 5

ReadyResults == {WaitForDeviceReady(s, WaitMinutes) : s \in PollScripts}

\* ------------------------------------------------- CheckLockScreenStatus
\* The results of the five commands of the four heuristics.
StatusCommandResults ==
    [window      : Returns({"", "mDreamingLockscreen=true",
                            "mDreamingLockscreen=false",
                            "mShowingLockscreen=true",
                            "KeyguardController:\n  mKeyguardShowing=true",
                            "KeyguardController: mKeyguardShowing=true"}),
     power       : Returns({"", "mWakefulness=Asleep", "mWakefulness=Dozing",
                            "mWakefulness=Awake\nDisplay Power: state=OFF"}),
     activity    : Returns({"", "mResumedActivity: Launcher",
                            "mResumedActivity: Keyguard\nmFocusedActivity: Bouncer"}),
     lsDisabled  : Returns({"", "null", "0", "1"}),
     getDisabled : Returns({"", "true", "false", "TRUE"})]

\* A line of `dumpsys window` that shows the lock screen.
WindowLineLocked(line) ==
    LET lowerLine == ToLower(line) IN
    /\ \/ Contains(lowerLine, "mdreaminglockscreen")
       \/ Contains(lowerLine, "mshowingleckscreen")
       \/ Contains(lowerLine, "keyguardcontroller")
    /\ \/ Contains(lowerLine, "mshowingleckscreen=true")
       \/ Contains(lowerLine, "mdreaminglockscreen=true")
       \/ Contains(lowerLine, "keyguardshowing=true")

\* A line of `dumpsys power` that shows the device asleep.
PowerLineLocked(line) ==
    LET lowerLine == ToLower(line) IN
    /\ Contains(lowerLine, "mwakefulness") \/ Contains(lowerLine, "display power")
    /\ Contains(lowerLine, "asleep") \/ Contains(lowerLine, "dozing")

\* A line of `dumpsys activity activities` that shows an activity other
\* than the lock screen in front.
ActivityLineUnlocked(line) ==
    LET lowerLine == ToLower(line) IN
    /\ \/ Contains(lowerLine, "mresumedactivity")
       \/ Contains(lowerLine, "mfocusedactivity")
    /\ ~Contains(lowerLine, "keyguard")
    /\ ~Contains(lowerLine, "lockscreen")
    /\ ~Contains(lowerLine, "bouncer")

\* (isLocked, err # nil), and the heuristic that decided (0: none).
CheckLockScreenStatus(r) ==
    IF /\ r.window.ok /\ r.window.out # ""
       /\ \E n \in 1..Len(SplitLines(r.window.out)) :
              WindowLineLocked(SplitLines(r.window.out)[n])
    THEN [locked |-> TRUE, err |-> FALSE, by |-> 1]
    ELSE IF /\ r.power.ok /\ r.power.out # ""
            /\ \E n \in 1..Len(SplitLines(r.power.out)) :
                   PowerLineLocked(SplitLines(r.power.out)[n])
    THEN [locked |-> TRUE, err |-> FALSE, by |-> 2]
    ELSE IF /\ r.activity.ok /\ r.activity.out # ""
            /\ \E n \in 1..Len(SplitLines(r.activity.out)) :
                   ActivityLineUnlocked(SplitLines(r.activity.out)[n])
    THEN [locked |-> FALSE, err |-> FALSE, by |-> 3]
    ELSE IF r.lsDisabled.ok /\ r.lsDisabled.out = "1"
    THEN [locked |-> FALSE, err |-> FALSE, by |-> 4]
    ELSE IF r.getDisabled.ok /\ Contains(ToLower(r.getDisabled.out), "true")
    THEN [locked |-> FALSE, err |-> FALSE, by |-> 4]
    ELSE [locked |-> TRUE, err |-> TRUE, by |-> 0]

\* (isLocked, err # nil), over every combination of command results.
StatusResults ==
    {[locked |-> CheckLockScreenStatus(r).locked,
      err    |-> CheckLockScreenStatus(r).err] : r \in StatusCommandResults}

\* --------------------------------------------- ValidateLockScreenRemoval
\* ValidateLockScreenRemoval, had it decided by its first status check
\* alone.
ValidateLockScreenRemoval_NoRecheck(first, second) ==
    ~first.locked

\* first: the result of the first CheckLockScreenStatus; second: of the
\* one after the wake-up key event, made only when the first returned an
\* error.
ValidateLockScreenRemoval(first, second) ==
    IF first.err
    THEN IF second.err THEN FALSE ELSE ~second.locked
    ELSE ~first.locked

ValidationResults ==
    {ValidateLockScreenRemoval(f, s) : f \in StatusResults, s \in StatusResults}

\* What the status check whose result decides ValidateLockScreenRemoval
\* said: the second one when the first returned an error, else the first.
LastStatus(first, second) ==
    LET st == IF first.err THEN second ELSE first IN
    IF st.err THEN "indeterminate"
    ELSE IF st.locked THEN "locked" ELSE "unlocked"

\* The runs of ValidateLockScreenRemoval: what it returns and what its
\* deciding status check said.
ValidationRuns ==
    {[ret    |-> ValidateLockScreenRemoval(f, s),
      status |-> LastStatus(f, s)] : f \in StatusResults, s \in StatusResults}

\* =================================================== the state machine
VARIABLES
    devices,        \* the slice handed to ProcessDevices
    mainPc,         \* where the caller of ProcessDevices stands
    launched,       \* how many goroutines the loop of ProcessDevices started
    wg,             \* the WaitGroup's counter
    successCount,   \* ProcessingStats.successCount
    failedDevices,  \* ProcessingStats.failedDevices
    totalDevices,   \* ProcessingStats.totalDevices
    result,         \* what ProcessDevices returned: <<>> before it returns
    g,              \* the goroutines: where each stands and what it did
    dl,             \* a call of DisableLockScreen
    mc,             \* a call of one strategy
    wr,             \* a call of WaitForDeviceReady
    vl,             \* a call of ValidateLockScreenRemoval
    ce,             \* a call of CheckExistingLockScreen
    cs,             \* a call of CheckLockScreenStatus
    gc,             \* a call of GetConnectedDevices
    ps,             \* a ProcessingStats with its mutex, heap and callers
    pr,             \* the process: main, Run and the signal handler
    lm,             \* the two mutexes and what each goroutine holds
    rc              \* a call of runADBCommand

statsVars == <<successCount, failedDevices, totalDevices>>
batchVars == <<devices, mainPc, launched, wg, successCount, failedDevices,
               totalDevices, result, g>>
\* The calls of single functions, each idle in the other specifications.
callVars == <<dl, mc, wr, vl, ce, cs, gc, ps, pr, lm, rc>>
vars == <<devices, mainPc, launched, wg, successCount, failedDevices,
          totalDevices, result, g, dl, mc, wr, vl, ce, cs, gc, ps, pr, lm,
          rc>>

\* A goroutine before it runs.  pc is its place in
\* DisableLockscreenOnDeviceAsync; the other fields record what it has done:
\* perm, lock, reboot, ready, valid are the results of CheckDevicePermissions,
\* CheckExistingLockScreen, RebootDevice, WaitForDeviceReady and
\* ValidateLockScreenRemoval ("none" until called), status what the deciding
\* status check of the validation said, shell and list what the
\* two commands of the permission check returned ("ok", "fail", and for the
\* second, whose output is read, "empty" for a success with empty output and
\* "none" when it was not issued), tried the strategies it
\* attempted in order, okAt the strategy that returned true (0: none), last
\* what the latest strategy did, slept whether the 1 s pause followed it,
\* calls the statistics methods it called in order.
NewGoroutine ==
    [pc |-> "idle", shell |-> "none", list |-> "none", perm |-> "none",
     lock |-> "none", tried |-> <<>>,
     okAt |-> 0, last |-> "none", slept |-> FALSE, reboot |-> "none",
     ready |-> "none", valid |-> "none", status |-> "none", calls |-> <<>>]

YesNo(b) == IF b THEN "yes" ELSE "no"

\* What a command returned, as the record of a goroutine keeps it.
Answer(res) == IF ~res.ok THEN "fail" ELSE IF res.out = "" THEN "empty" ELSE "ok"

\* DisableLockScreen before it is called.
NoCall == [pc |-> "idle", target |-> "", i |-> 0, tried |-> <<>>, ret |-> FALSE]

\* A strategy before it is called.
NoMethodCall == [pc |-> "idle", target |-> "", k |-> 0, issued |-> <<>>,
                 ret |-> FALSE]

\* WaitForDeviceReady before it is called.
NoWait == [pc |-> "idle", target |-> "", maxWaitMinutes |-> 0,
           maxAttempts |-> 0, attempt |-> 0, polls |-> 0,
           state |-> "none", shell |-> "none", ret |-> FALSE]

\* ValidateLockScreenRemoval before it is called.
NoValidation == [pc |-> "idle", target |-> "", checks |-> <<>>,
                 wake |-> <<>>, ret |-> FALSE]

\* CheckExistingLockScreen before it is called.
NoLockCheck == [pc |-> "idle", target |-> "", seen |-> <<>>,
                lockScreenDisabledLockSettingsMethod |-> FALSE,
                present |-> FALSE, by |-> 0]

\* CheckLockScreenStatus before it is called.
NoStatusCheck == [pc |-> "idle", target |-> "", seen |-> <<>>,
                  locked |-> FALSE, err |-> FALSE, by |-> 0]

\* GetConnectedDevices before it is called.
NoListing == [pc |-> "idle", targetDevices |-> <<>>, listing |-> <<>>,
              success |-> FALSE, output |-> <<>>, allDevices |-> <<>>,
              devices |-> <<>>, n |-> 0, warnings |-> <<>>, ret |-> <<>>]

\* No ProcessingStats under test.
\* A slice is its backing array in the heap (0 for none), its length and
\* its capacity.
NilSlice == [arr |-> 0, len |-> 0, cap |-> 0]

\* No ProcessingStats exists and no goroutine is calling.
NoStats ==
    [pc |-> "idle", mu |-> 0, successCount |-> 0,
     failedDevices |-> NilSlice, totalDevices |-> 0, heap |-> <<>>,
     log |-> <<>>,
     caller |-> [c \in Procs |->
                   [pc |-> "idle", op |-> "", arg |-> "", n |-> 0,
                    s |-> NilSlice, has |-> FALSE,
                    ret |-> [successCount |-> 0, failed |-> NilSlice,
                             total |-> 0],
                    at |-> <<>>, wrote |-> FALSE]]]

\* No process has started.
NoProcess == [pc |-> "idle", program |-> "", adb |-> "none",
              listed |-> FALSE, summary |-> FALSE, c |-> 0, exit |-> 0,
              cause |-> "none"]

\* No goroutine is at work on the mutexes.
NoLocks ==
    [pc |-> "idle", n |-> 0, enableLogging |-> FALSE, launched |-> 0,
     wg |-> 0, logMutex |-> {}, mu |-> {},
     t |-> [i \in Threads |-> [at |-> "idle", then |-> "", rounds |-> 0]]]

\* runADBCommand before it is called.
NoCommand == [pc |-> "idle", fullCommand |-> <<>>, proc |-> "none",
              text |-> "", expired |-> FALSE,
              ret |-> [ok |-> FALSE, out |-> "", err |-> ""]]

\* No single function is being called.
NoOtherCalls ==
    /\ mc = NoMethodCall
    /\ wr = NoWait
    /\ vl = NoValidation
    /\ ce = NoLockCheck
    /\ cs = NoStatusCheck
    /\ gc = NoListing
    /\ ps = NoStats
    /\ pr = NoProcess
    /\ lm = NoLocks
    /\ rc = NoCommand

InitBatchVars ==
    /\ mainPc = "call"
    /\ launched = 0
    /\ wg = 0
    /\ successCount = 0
    /\ failedDevices = <<>>
    /\ totalDevices = 0
    /\ result = <<>>
    /\ g = [i \in Procs |-> NewGoroutine]

Init ==
    /\ devices \in SeqsUpTo(Targets, MaxDevices)
    /\ InitBatchVars
    /\ dl = NoCall
    /\ NoOtherCalls

\* ------------------------------------------------------ ProcessingStats
\* Each method locks mu, runs its body and unlocks on return; nothing in a
\* body blocks, so a method is one step.
NewProcessingStats(n) ==
    /\ totalDevices' = n
    /\ successCount' = 0
    /\ failedDevices' = <<>>

\* IncrementSuccess, had it counted a success twice.
IncrementSuccess_Twice ==
    /\ successCount' = successCount + 2
    /\ UNCHANGED <<failedDevices, totalDevices>>

IncrementSuccess ==
    /\ successCount' = successCount + 1
    /\ UNCHANGED <<failedDevices, totalDevices>>

\* AddFailedDevice, had it put the device at the head of the slice.
AddFailedDevice_Prepend(deviceSerial) ==
    /\ failedDevices' = <<deviceSerial>> \o failedDevices
    /\ UNCHANGED <<successCount, totalDevices>>

\* AddFailedDevice, had it assigned the slice instead of appending to it.
AddFailedDevice_Overwrite(deviceSerial) ==
    /\ failedDevices' = <<deviceSerial>>
    /\ UNCHANGED <<successCount, totalDevices>>

AddFailedDevice(deviceSerial) ==
    /\ failedDevices' = Append(failedDevices, deviceSerial)
    /\ UNCHANGED <<successCount, totalDevices>>

GetStats == <<successCount, failedDevices, totalDevices>>

\* ------------------------------------------------------- ProcessDevices
\* The call: an empty slice returns at once, else the statistics object is
\* created.
ProcessDevices ==
    /\ mainPc = "call"
    /\ IF Len(devices) = 0
       THEN /\ result' = <<0, <<>>, 0>>
            /\ mainPc' = "returned"
            /\ UNCHANGED statsVars
       ELSE /\ NewProcessingStats(Len(devices))
            /\ mainPc' = "launch"
            /\ UNCHANGED result
    /\ UNCHANGED <<devices, launched, wg, g, callVars>>

\* Launch, had the loop started a device only after the one before it had
\* finished.
Launch_OneAtATime ==
    /\ mainPc = "launch"
    /\ launched < Len(devices)
    /\ launched > 0 => g[launched].pc = "done"
    /\ wg' = wg + 1
    /\ launched' = launched + 1
    /\ g' = [g EXCEPT ![launched + 1].pc = "info"]
    /\ UNCHANGED <<devices, mainPc, statsVars, result, callVars>>

\* One turn of the loop: wg.Add(1); go DisableLockscreenOnDeviceAsync(...).
Launch ==
    /\ mainPc = "launch"
    /\ launched < Len(devices)
    /\ wg' = wg + 1
    /\ launched' = launched + 1
    /\ g' = [g EXCEPT ![launched + 1].pc = "info"]
    /\ UNCHANGED <<devices, mainPc, statsVars, result, callVars>>

\* WgWait, had ProcessDevices not waited for the goroutines.
WgWait_NoWait ==
    /\ mainPc = "launch"
    /\ launched = Len(devices)
    /\ mainPc' = "stats"
    /\ UNCHANGED <<devices, launched, wg, statsVars, result, g, callVars>>

\* wg.Wait(): the loop is over and the counter is zero.
WgWait ==
    /\ mainPc = "launch"
    /\ launched = Len(devices)
    /\ wg = 0
    /\ mainPc' = "stats"
    /\ UNCHANGED <<devices, launched, wg, statsVars, result, g, callVars>>

\* return stats.GetStats()
Return ==
    /\ mainPc = "stats"
    /\ result' = GetStats
    /\ mainPc' = "returned"
    /\ UNCHANGED <<devices, launched, wg, statsVars, g, callVars>>

\* ----------------------------------------- DisableLockscreenOnDeviceAsync
\* The goroutine calls a statistics method and returns.
Succeed(i, rec) ==
    /\ IncrementSuccess
    /\ g' = [g EXCEPT ![i] = [rec EXCEPT !.pc = "ret",
                                  !.calls = Append(@, "IncrementSuccess")]]

Fail(i, rec) ==
    /\ AddFailedDevice(devices[i])
    /\ g' = [g EXCEPT ![i] = [rec EXCEPT !.pc = "ret",
                                  !.calls = Append(@, "AddFailedDevice")]]

\* The goroutine goes on to pc without touching the statistics.
Goto(i, rec, pc) ==
    /\ g' = [g EXCEPT ![i] = [rec EXCEPT !.pc = pc]]
    /\ UNCHANGED statsVars

\* GetDeviceInfo and its log line.
GetDeviceInfo(i) ==
    /\ g[i].pc = "info"
    /\ Goto(i, g[i], "perm")
    /\ UNCHANGED <<devices, mainPc, launched, wg, result, callVars>>

\* CheckPermissions, had the failure branch lacked its return.
CheckPermissions_NoReturn(i) ==
    /\ g[i].pc = "perm"
    /\ \E shell \in ShellResults, list \in ListResults :
         LET ok  == CheckDevicePermissions(shell, list)
             rec == [g[i] EXCEPT !.shell = IF shell.ok THEN "ok" ELSE "fail",
                                 !.list = IF shell.ok THEN Answer(list)
                                          ELSE "none",
                                 !.perm = YesNo(ok)]
         IN  IF ~ok
             THEN /\ AddFailedDevice(devices[i])
                  /\ g' = [g EXCEPT ![i] = [rec EXCEPT !.pc = "lock",
                                       !.calls = Append(@, "AddFailedDevice")]]
             ELSE Goto(i, rec, "lock")
    /\ UNCHANGED <<devices, mainPc, launched, wg, result, callVars>>

\* CheckPermissions, had a failed check ended the batch: ProcessDevices
\* returns at once with the statistics of that moment.
CheckPermissions_AbortsBatch(i) ==
    /\ g[i].pc = "perm"
    /\ \E shell \in ShellResults, list \in ListResults :
         LET ok  == CheckDevicePermissions(shell, list)
             rec == [g[i] EXCEPT !.shell = IF shell.ok THEN "ok" ELSE "fail",
                                 !.list = IF shell.ok THEN Answer(list)
                                          ELSE "none",
                                 !.perm = YesNo(ok)]
         IN  IF ~ok
             THEN /\ Fail(i, rec)
                  /\ mainPc' = "returned"
                  /\ result' = <<successCount,
                                 Append(failedDevices, devices[i]),
                                 totalDevices>>
             ELSE /\ Goto(i, rec, "lock")
                  /\ UNCHANGED <<mainPc, result>>
    /\ UNCHANGED <<devices, launched, wg, callVars>>

\* The permission check: on failure the device is recorded as failed.
CheckPermissions(i) ==
    /\ g[i].pc = "perm"
    /\ \E shell \in ShellResults, list \in ListResults :
         LET ok  == CheckDevicePermissions(shell, list)
             rec == [g[i] EXCEPT !.shell = IF shell.ok THEN "ok" ELSE "fail",
                                 !.list = IF shell.ok THEN Answer(list)
                                          ELSE "none",
                                 !.perm = YesNo(ok)]
         IN  IF ~ok THEN Fail(i, rec) ELSE Goto(i, rec, "lock")
    /\ UNCHANGED <<devices, mainPc, launched, wg, result, callVars>>

\* CheckLock, had the no-lock branch lacked its return.
CheckLock_NoReturn(i) ==
    /\ g[i].pc = "lock"
    /\ \E hasLock \in LockScreenResults :
         LET rec == [g[i] EXCEPT !.lock = YesNo(hasLock)] IN
         IF ~hasLock
         THEN /\ IncrementSuccess
              /\ g' = [g EXCEPT ![i] = [rec EXCEPT !.pc = "method",
                                   !.calls = Append(@, "IncrementSuccess")]]
         ELSE Goto(i, rec, "method")
    /\ UNCHANGED <<devices, mainPc, launched, wg, result, callVars>>

\* The lock inspection: with no lock there is nothing to do.
CheckLock(i) ==
    /\ g[i].pc = "lock"
    /\ \E hasLock \in LockScreenResults :
         LET rec == [g[i] EXCEPT !.lock = YesNo(hasLock)] IN
         IF ~hasLock THEN Succeed(i, rec) ELSE Goto(i, rec, "method")
    /\ UNCHANGED <<devices, mainPc, launched, wg, result, callVars>>

\* TryMethod, had the test of success after the loop been missing.
TryMethod_RebootAfterFailure(i) ==
    /\ g[i].pc = "method"
    /\ LET k == Len(g[i].tried) + 1 IN
       \E out \in MethodOutcomes(k) :
         LET rec == [g[i] EXCEPT !.tried = Append(@, k),
                                 !.last = out,
                                 !.slept = (out = "fail"),
                                 !.okAt = IF out = "ok" THEN k ELSE @]
         IN
         IF out = "ok" THEN Goto(i, rec, "reboot")
         ELSE IF k < NumMethods THEN Goto(i, rec, "method")
         ELSE Goto(i, rec, "reboot")
    /\ UNCHANGED <<devices, mainPc, launched, wg, result, callVars>>

\* TryMethod, had the recover been deferred around the whole loop instead
\* of inside the closure of one turn.
TryMethod_RecoverOutsideLoop(i) ==
    /\ g[i].pc = "method"
    /\ LET k == Len(g[i].tried) + 1 IN
       \E out \in MethodOutcomes(k) :
         LET rec == [g[i] EXCEPT !.tried = Append(@, k),
                                 !.last = out,
                                 !.slept = (out = "fail"),
                                 !.okAt = IF out = "ok" THEN k ELSE @]
         IN
         IF out = "ok" THEN Goto(i, rec, "reboot")
         ELSE IF out = "panic" THEN Fail(i, rec)
         ELSE IF k < NumMethods THEN Goto(i, rec, "method")
         ELSE Fail(i, rec)
    /\ UNCHANGED <<devices, mainPc, launched, wg, result, callVars>>

\* TryMethod, had the loop lacked its break on success.
TryMethod_NoBreak(i) ==
    /\ g[i].pc = "method"
    /\ LET k == Len(g[i].tried) + 1 IN
       \E out \in MethodOutcomes(k) :
         LET rec == [g[i] EXCEPT !.tried = Append(@, k),
                                 !.last = out,
                                 !.slept = (out = "fail"),
                                 !.okAt = IF out = "ok" THEN k ELSE @]
         IN
         IF k < NumMethods THEN Goto(i, rec, "method")
         ELSE IF rec.okAt # 0 THEN Goto(i, rec, "reboot")
         ELSE Fail(i, rec)
    /\ UNCHANGED <<devices, mainPc, launched, wg, result, callVars>>

\* One turn of the loop over methods: the closure calls the strategy,
\* returns on success, sleeps 1 s on failure, and recovers from a panic;
\* then the loop breaks on success, and after the last strategy the
\* device is recorded as failed.
TryMethod(i) ==
    /\ g[i].pc = "method"
    /\ LET k == Len(g[i].tried) + 1 IN
       \E out \in MethodOutcomes(k) :
         LET rec == [g[i] EXCEPT !.tried = Append(@, k),
                                 !.last = out,
                                 !.slept = (out = "fail"),
                                 !.okAt = IF out = "ok" THEN k ELSE @]
         IN
         IF out = "ok" THEN Goto(i, rec, "reboot")
         ELSE IF k < NumMethods THEN Goto(i, rec, "method")
         ELSE Fail(i, rec)
    /\ UNCHANGED <<devices, mainPc, launched, wg, result, callVars>>

\* Reboot, had a refused reboot recorded the device as failed.
Reboot_FailsOnRefusal(i) ==
    /\ g[i].pc = "reboot"
    /\ \E ok \in RebootResults :
         LET rec == [g[i] EXCEPT !.reboot = YesNo(ok)] IN
         IF ~ok THEN Fail(i, rec) ELSE Goto(i, rec, "wait")
    /\ UNCHANGED <<devices, mainPc, launched, wg, result, callVars>>

\* Reboot, had the refused-reboot branch lacked its return.
Reboot_NoReturn(i) ==
    /\ g[i].pc = "reboot"
    /\ \E ok \in RebootResults :
         LET rec == [g[i] EXCEPT !.reboot = YesNo(ok)] IN
         IF ~ok
         THEN /\ IncrementSuccess
              /\ g' = [g EXCEPT ![i] = [rec EXCEPT !.pc = "wait",
                                   !.calls = Append(@, "IncrementSuccess")]]
         ELSE Goto(i, rec, "wait")
    /\ UNCHANGED <<devices, mainPc, launched, wg, result, callVars>>

\* The 2 s pause and the reboot: a refused reboot still counts as success.
Reboot(i) ==
    /\ g[i].pc = "reboot"
    /\ \E ok \in RebootResults :
         LET rec == [g[i] EXCEPT !.reboot = YesNo(ok)] IN
         IF ~ok THEN Succeed(i, rec) ELSE Goto(i, rec, "wait")
    /\ UNCHANGED <<devices, mainPc, launched, wg, result, callVars>>

\* WaitReady, had the result of WaitForDeviceReady been ignored.
WaitReady_IgnoreTimeout(i) ==
    /\ g[i].pc = "wait"
    /\ \E ok \in ReadyResults :
         LET rec == [g[i] EXCEPT !.ready = YesNo(ok)] IN
         Goto(i, rec, "validate")
    /\ UNCHANGED <<devices, mainPc, launched, wg, result, callVars>>

\* The wait for the device: a timeout records the device as failed.
WaitReady(i) ==
    /\ g[i].pc = "wait"
    /\ \E ok \in ReadyResults :
         LET rec == [g[i] EXCEPT !.ready = YesNo(ok)] IN
         IF ~ok THEN Fail(i, rec) ELSE Goto(i, rec, "validate")
    /\ UNCHANGED <<devices, mainPc, launched, wg, result, callVars>>

\* Validate, had a validation that returned false recorded the device as
\* failed.
Validate_FailOnFalse(i) ==
    /\ g[i].pc = "validate"
    /\ \E run \in ValidationRuns :
         LET rec == [g[i] EXCEPT !.valid = YesNo(run.ret),
                                 !.status = run.status] IN
         IF run.ret THEN Succeed(i, rec) ELSE Fail(i, rec)
    /\ UNCHANGED <<devices, mainPc, launched, wg, result, callVars>>

\* Validate, had a validation that could not tell recorded the device as
\* failed.
Validate_FailIndeterminate(i) ==
    /\ g[i].pc = "validate"
    /\ \E run \in ValidationRuns :
         LET rec == [g[i] EXCEPT !.valid = YesNo(run.ret),
                                 !.status = run.status] IN
         IF run.status = "indeterminate" THEN Fail(i, rec)
         ELSE Succeed(i, rec)
    /\ UNCHANGED <<devices, mainPc, launched, wg, result, callVars>>

\* Validate, had it decided by what the other devices had recorded.
Validate_ReadsStats(i) ==
    /\ g[i].pc = "validate"
    /\ \E run \in ValidationRuns :
         LET rec == [g[i] EXCEPT !.valid = YesNo(run.ret),
                                 !.status = run.status] IN
         IF run.ret \/ failedDevices = <<>> THEN Succeed(i, rec)
         ELSE Fail(i, rec)
    /\ UNCHANGED <<devices, mainPc, launched, wg, result, callVars>>

\* The validation: success is recorded whatever it returns.
Validate(i) ==
    /\ g[i].pc = "validate"
    /\ \E run \in ValidationRuns :
         LET rec == [g[i] EXCEPT !.valid = YesNo(run.ret),
                                 !.status = run.status] IN
         IF run.ret THEN Succeed(i, rec) ELSE Succeed(i, rec)
    /\ UNCHANGED <<devices, mainPc, launched, wg, result, callVars>>

\* defer wg.Done()
Done(i) ==
    /\ g[i].pc = "ret"
    /\ wg' = wg - 1
    /\ g' = [g EXCEPT ![i].pc = "done"]
    /\ UNCHANGED <<devices, mainPc, launched, statsVars, result, callVars>>

DisableLockscreenOnDeviceAsync(i) ==
    \/ GetDeviceInfo(i)
    \/ CheckPermissions(i)
    \/ CheckLock(i)
    \/ TryMethod(i)
    \/ Reboot(i)
    \/ WaitReady(i)
    \/ Validate(i)
    \/ Done(i)

Main == ProcessDevices \/ Launch \/ WgWait \/ Return

Next == Main \/ \E i \in Procs : DisableLockscreenOnDeviceAsync(i)

Spec == Init /\ [][Next]_vars

\* A scheduler that is fair to the caller of ProcessDevices and promises
\* nothing to any goroutine: each may stop for ever at any of its steps.
FairSpec == Init /\ [][Next]_vars /\ WF_vars(Main)

\* ---------------------------------------------------- DisableLockScreen
\* The public cascade, called on its own for one target.
InitDisable ==
    /\ devices = <<>>
    /\ InitBatchVars
    /\ dl = NoCall
    /\ NoOtherCalls

CallDisableLockScreen ==
    /\ dl.pc = "idle"
    /\ \E t \in Targets :
         dl' = [pc |-> "loop", target |-> t, i |-> 1, tried |-> <<>>,
                ret |-> FALSE]
    /\ UNCHANGED <<batchVars, mc, wr, vl, ce, cs, gc, ps, pr, lm, rc>>

\* One turn of the loop over methods: the closure calls the strategy,
\* returns on success, sleeps 1 s on failure, and recovers from a panic;
\* the loop then goes on to the next strategy.
DisableLockScreenTurn ==
    /\ dl.pc = "loop"
    /\ dl.i <= NumMethods
    /\ \E out \in MethodOutcomes(dl.i) :
         dl' = [dl EXCEPT !.tried = Append(@, [m |-> dl.i, out |-> out,
                                               slept |-> (out = "fail")]),
                          !.i = dl.i + 1]
    /\ UNCHANGED <<batchVars, mc, wr, vl, ce, cs, gc, ps, pr, lm, rc>>

\* The loop is over: return false.
DisableLockScreenReturn ==
    /\ dl.pc = "loop"
    /\ dl.i > NumMethods
    /\ dl' = [dl EXCEPT !.pc = "returned", !.ret = FALSE]
    /\ UNCHANGED <<batchVars, mc, wr, vl, ce, cs, gc, ps, pr, lm, rc>>

DisableLockScreen ==
    \/ CallDisableLockScreen
    \/ DisableLockScreenTurn
    \/ DisableLockScreenReturn

SpecDisable == InitDisable /\ [][DisableLockScreen]_vars

\* ------------------------------------------- a strategy called alone
\* The commands strategy k issues, in order.
MethodCommands(k) ==
    CASE k = 1 -> <<"shell locksettings clear",
                    "shell locksettings set-disabled true">>
      [] k = 2 -> <<"shell settings put secure lockscreen.disabled 1">>
      [] k = 3 -> <<"shell settings put system lockscreen_disabled 1">>
      [] k = 4 -> <<"shell settings put global device_provisioned 1",
                    "shell settings put secure user_setup_complete 1">>

\* What a command of a strategy returns.
MethodCommandResults == Returns({"", "x"})

InitMethod ==
    /\ devices = <<>>
    /\ InitBatchVars
    /\ dl = NoCall
    /\ NoOtherCalls

CallMethod ==
    /\ mc.pc = "idle"
    /\ \E k \in 1..NumMethods, t \in Targets :
         mc' = [pc |-> "run", target |-> t, k |-> k, issued |-> <<>>,
                ret |-> FALSE]
    /\ UNCHANGED <<batchVars, dl, wr, vl, ce, cs, gc, ps, pr, lm, rc>>

\* The strategy issues its next command; no strategy leaves a command out
\* on account of an earlier one's result.
MethodCommand ==
    /\ mc.pc = "run"
    /\ Len(mc.issued) < Len(MethodCommands(mc.k))
    /\ \E res \in MethodCommandResults :
         mc' = [mc EXCEPT !.issued =
                   Append(@, [cmd |-> MethodCommands(mc.k)[Len(mc.issued) + 1],
                              ok  |-> res.ok, out |-> res.out])]
    /\ UNCHANGED <<batchVars, dl, wr, vl, ce, cs, gc, ps, pr, lm, rc>>

\* The strategy returns what it makes of its commands' success flags.
MethodReturn ==
    /\ mc.pc = "run"
    /\ Len(mc.issued) = Len(MethodCommands(mc.k))
    /\ mc' = [mc EXCEPT !.pc = "returned",
                        !.ret = Method(mc.k, mc.issued[1].ok,
                                       mc.issued[Len(mc.issued)].ok)]
    /\ UNCHANGED <<batchVars, dl, wr, vl, ce, cs, gc, ps, pr, lm, rc>>

NextMethod == CallMethod \/ MethodCommand \/ MethodReturn

SpecMethod == InitMethod /\ [][NextMethod]_vars

\* --------------------------------------- WaitForDeviceReady called alone
\* The waits it is called with: none, up to MaxMinutes, and the 5 minutes
\* of the orchestration.
WaitArguments == (0..MaxMinutes) \cup {WaitMinutes}

InitWait ==
    /\ devices = <<>>
    /\ InitBatchVars
    /\ dl = NoCall
    /\ NoOtherCalls

\* attempt counts the failed attempts, polls the get-state commands issued,
\* state and shell are the results of the two commands of the latest
\* attempt ("none": not issued in it).
CallWaitForDeviceReady ==
    /\ wr.pc = "idle"
    /\ \E t \in Targets, maxWaitMinutes \in WaitArguments :
         wr' = [pc |-> "test", target |-> t,
                maxWaitMinutes |-> maxWaitMinutes,
                maxAttempts |-> maxWaitMinutes * 12,
                attempt |-> 0, polls |-> 0,
                state |-> "none", shell |-> "none", ret |-> FALSE]
    /\ UNCHANGED <<batchVars, dl, mc, vl, ce, cs, gc, ps, pr, lm, rc>>

\* WaitGetState, had the loop tested attempt <= maxAttempts.
WaitGetState_OneMore ==
    /\ wr.pc = "test"
    /\ wr.attempt <= wr.maxAttempts
    /\ \E success \in Succeeds :
         IF success
         THEN wr' = [wr EXCEPT !.pc = "shell", !.polls = @ + 1,
                               !.state = "ok", !.shell = "none"]
         ELSE wr' = [wr EXCEPT !.polls = @ + 1, !.attempt = @ + 1,
                               !.state = "fail", !.shell = "none"]
    /\ UNCHANGED <<batchVars, dl, mc, vl, ce, cs, gc, ps, pr, lm, rc>>

\* The loop test passes and get-state is issued: on success the shell
\* command is next, on failure the attempt is counted and, after 5 s, the
\* loop test is next.
WaitGetState ==
    /\ wr.pc = "test"
    /\ wr.attempt < wr.maxAttempts
    /\ \E success \in Succeeds :
         IF success
         THEN wr' = [wr EXCEPT !.pc = "shell", !.polls = @ + 1,
                               !.state = "ok", !.shell = "none"]
         ELSE wr' = [wr EXCEPT !.polls = @ + 1, !.attempt = @ + 1,
                               !.state = "fail", !.shell = "none"]
    /\ UNCHANGED <<batchVars, dl, mc, vl, ce, cs, gc, ps, pr, lm, rc>>

\* WaitShell, had it returned true whatever the shell command returned.
WaitShell_IgnoreResult ==
    /\ wr.pc = "shell"
    /\ \E success \in Succeeds :
         wr' = [wr EXCEPT !.pc = "returned", !.ret = TRUE,
                          !.shell = IF success THEN "ok" ELSE "fail"]
    /\ UNCHANGED <<batchVars, dl, mc, vl, ce, cs, gc, ps, pr, lm, rc>>

\* After 10 s the shell command is issued: on success the function returns
\* true, on failure the attempt is counted and, after 5 s, the loop test
\* is next.
WaitShell ==
    /\ wr.pc = "shell"
    /\ \E success \in Succeeds :
         IF success
         THEN wr' = [wr EXCEPT !.pc = "returned", !.ret = TRUE,
                               !.shell = "ok"]
         ELSE wr' = [wr EXCEPT !.pc = "test", !.attempt = @ + 1,
                               !.shell = "fail"]
    /\ UNCHANGED <<batchVars, dl, mc, vl, ce, cs, gc, ps, pr, lm, rc>>

\* The loop test fails: return false.
WaitTimeout ==
    /\ wr.pc = "test"
    /\ ~(wr.attempt < wr.maxAttempts)
    /\ wr' = [wr EXCEPT !.pc = "returned", !.ret = FALSE]
    /\ UNCHANGED <<batchVars, dl, mc, vl, ce, cs, gc, ps, pr, lm, rc>>

NextWait ==
    \/ CallWaitForDeviceReady
    \/ WaitGetState
    \/ WaitShell
    \/ WaitTimeout

SpecWait == InitWait /\ [][NextWait]_vars

\* The function runs in one goroutine, and each of its commands returns
\* within the 30 s of runADBCommand: a step that can be taken is taken.
FairSpecWait == InitWait /\ [][NextWait]_vars /\ WF_vars(NextWait)

\* -------------------------------- ValidateLockScreenRemoval called alone
\* What a status check returns: (isLocked, err # nil) and the heuristic
\* that decided, over every combination of command results.
StatusChecks == {CheckLockScreenStatus(r) : r \in StatusCommandResults}

\* What the wake-up key event returns; the function reads none of it.
WakeResults == {runADBCommand(r) : r \in ProcessRuns({"", "x"})}

InitValidate ==
    /\ devices = <<>>
    /\ InitBatchVars
    /\ dl = NoCall
    /\ NoOtherCalls

\* checks lists what the status checks returned, wake what the key event
\* returned (empty: not issued).
CallValidateLockScreenRemoval ==
    /\ vl.pc = "idle"
    /\ \E t \in Targets :
         vl' = [pc |-> "first", target |-> t, checks |-> <<>>,
                wake |-> <<>>, ret |-> FALSE]
    /\ UNCHANGED <<batchVars, dl, mc, wr, ce, cs, gc, ps, pr, lm, rc>>

\* After 3 s the first status check: an error leads to the wake-up.
ValidateFirstCheck ==
    /\ vl.pc = "first"
    /\ \E st \in StatusChecks :
         vl' = [vl EXCEPT !.checks = <<st>>,
                          !.pc = IF st.err THEN "wake" ELSE "decide"]
    /\ UNCHANGED <<batchVars, dl, mc, wr, ce, cs, gc, ps, pr, lm, rc>>

\* The wake-up key event, whose result is dropped, and 2 s of sleep.
ValidateWake ==
    /\ vl.pc = "wake"
    /\ \E res \in WakeResults :
         vl' = [vl EXCEPT !.wake = <<res>>, !.pc = "second"]
    /\ UNCHANGED <<batchVars, dl, mc, wr, ce, cs, gc, ps, pr, lm, rc>>

\* The second status check: an error returns false.
ValidateSecondCheck ==
    /\ vl.pc = "second"
    /\ \E st \in StatusChecks :
         LET checks == Append(vl.checks, st) IN
         IF st.err
         THEN vl' = [vl EXCEPT !.checks = checks, !.pc = "returned",
                        !.ret = ValidateLockScreenRemoval(checks[1], st)]
         ELSE vl' = [vl EXCEPT !.checks = checks, !.pc = "decide"]
    /\ UNCHANGED <<batchVars, dl, mc, wr, ce, cs, gc, ps, pr, lm, rc>>

\* The test of isLocked after a check that could tell.
ValidateDecide ==
    /\ vl.pc = "decide"
    /\ vl' = [vl EXCEPT !.pc = "returned",
                 !.ret = ValidateLockScreenRemoval(vl.checks[1],
                                                   vl.checks[Len(vl.checks)])]
    /\ UNCHANGED <<batchVars, dl, mc, wr, ce, cs, gc, ps, pr, lm, rc>>

NextValidate ==
    \/ CallValidateLockScreenRemoval
    \/ ValidateFirstCheck
    \/ ValidateWake
    \/ ValidateSecondCheck
    \/ ValidateDecide

SpecValidate == InitValidate /\ [][NextValidate]_vars

\* ------------------------------------ CheckExistingLockScreen called alone
\* The seven commands in the order of the code, by the names of their
\* results in LockCommandResults.
LockCommands ==
    <<"trust", "getDisabled", "keyguard", "pattern", "pwtype", "lsDisabled",
      "policy">>

\* What each command can return.
LockResultSets ==
    [c \in {LockCommands[n] : n \in DOMAIN LockCommands} |->
        {r[c] : r \in LockCommandResults}]

\* The lockMethods slice of heuristic 4: the result's name and the word
\* the code looks for in the command.
LockMethods ==
    <<[cmd |-> "pattern",    name |-> "lock_pattern_enabled"],
      [cmd |-> "pwtype",     name |-> "password_type"],
      [cmd |-> "lsDisabled", name |-> "lockscreen.disabled"]>>

\* The tests of heuristics 1, 2, 3 and 5 on the result of their command.
TrustFires(res) ==
    /\ res.ok /\ res.out # ""
    /\ \/ Contains(ToLower(res.out), "isdevicesecure=true")
       \/ Contains(ToLower(res.out), "iskeyguardsecure=true")

LockSettingsDisabled(res) == Contains(ToLower(res.out), "true")

LockSettingsFires(res) == res.ok /\ ~LockSettingsDisabled(res)

KeyguardFires(res) ==
    /\ res.ok /\ res.out # ""
    /\ \/ Contains(ToLower(res.out), "secure=true")
       \/ Contains(ToLower(res.out), "enabled=true")

PolicyFires(res) ==
    /\ res.ok /\ res.out # ""
    /\ \/ Contains(ToLower(res.out), "passwordquality")
       \/ Contains(ToLower(res.out), "minimumpasswordlength")

InitLock ==
    /\ devices = <<>>
    /\ InitBatchVars
    /\ dl = NoCall
    /\ NoOtherCalls

\* The call has issued the command and has its result.
LockSeen(cmd, res) ==
    Append(ce.seen, [cmd |-> cmd, ok |-> res.ok, out |-> res.out])

\* return true, "...": heuristic by fired.
LockReturn(seen, by) ==
    [ce EXCEPT !.seen = seen, !.pc = "returned", !.present = (by # 0),
               !.by = by]

CallCheckExistingLockScreen ==
    /\ ce.pc = "idle"
    /\ \E t \in Targets :
         ce' = [NoLockCheck EXCEPT !.pc = "trust", !.target = t]
    /\ UNCHANGED <<batchVars, dl, mc, wr, vl, cs, gc, ps, pr, lm, rc>>

\* CheckLockTrust, had the first heuristic lacked its return.
CheckLockTrust_NoReturn ==
    /\ ce.pc = "trust"
    /\ \E res \in LockResultSets.trust :
         ce' = [ce EXCEPT !.seen = LockSeen("trust", res),
                          !.pc = "getDisabled"]
    /\ UNCHANGED <<batchVars, dl, mc, wr, vl, cs, gc, ps, pr, lm, rc>>

\* Method 1: `dumpsys trust`.
CheckLockTrust ==
    /\ ce.pc = "trust"
    /\ \E res \in LockResultSets.trust :
         ce' = IF TrustFires(res)
               THEN LockReturn(LockSeen("trust", res), 1)
               ELSE [ce EXCEPT !.seen = LockSeen("trust", res),
                               !.pc = "getDisabled"]
    /\ UNCHANGED <<batchVars, dl, mc, wr, vl, cs, gc, ps, pr, lm, rc>>

\* CheckLockGetDisabled, had it returned "no lock" as soon as locksettings
\* reported the lock screen disabled.
CheckLockGetDisabled_ReturnsOnTrue ==
    /\ ce.pc = "getDisabled"
    /\ \E res \in LockResultSets.getDisabled :
         LET seen == LockSeen("getDisabled", res) IN
         ce' = IF res.ok /\ ~LockSettingsDisabled(res)
               THEN LockReturn(seen, 2)
               ELSE IF res.ok
               THEN [LockReturn(seen, 0) EXCEPT
                        !.lockScreenDisabledLockSettingsMethod = TRUE]
               ELSE [ce EXCEPT !.seen = seen, !.pc = "keyguard"]
    /\ UNCHANGED <<batchVars, dl, mc, wr, vl, cs, gc, ps, pr, lm, rc>>

\* CheckLockGetDisabled, had it asked for a non-empty output as the other
\* heuristics do.
CheckLockGetDisabled_NonEmpty ==
    /\ ce.pc = "getDisabled"
    /\ \E res \in LockResultSets.getDisabled :
         LET seen == LockSeen("getDisabled", res) IN
         ce' = IF LockSettingsFires(res) /\ res.out # ""
               THEN LockReturn(seen, 2)
               ELSE [ce EXCEPT !.seen = seen, !.pc = "keyguard",
                        !.lockScreenDisabledLockSettingsMethod =
                            res.ok /\ LockSettingsDisabled(res)]
    /\ UNCHANGED <<batchVars, dl, mc, wr, vl, cs, gc, ps, pr, lm, rc>>

\* Method 2: `locksettings get-disabled`.  A successful command sets the
\* flag from its output, and returns when the flag is false.
CheckLockGetDisabled ==
    /\ ce.pc = "getDisabled"
    /\ \E res \in LockResultSets.getDisabled :
         LET seen == LockSeen("getDisabled", res) IN
         ce' = IF LockSettingsFires(res)
               THEN LockReturn(seen, 2)
               ELSE [ce EXCEPT !.seen = seen, !.pc = "keyguard",
                        !.lockScreenDisabledLockSettingsMethod =
                            res.ok /\ LockSettingsDisabled(res)]
    /\ UNCHANGED <<batchVars, dl, mc, wr, vl, cs, gc, ps, pr, lm, rc>>

\* Method 3: `dumpsys activity services KeyguardService`.
CheckLockKeyguard ==
    /\ ce.pc = "keyguard"
    /\ \E res \in LockResultSets.keyguard :
         ce' = IF KeyguardFires(res)
               THEN LockReturn(LockSeen("keyguard", res), 3)
               ELSE [ce EXCEPT !.seen = LockSeen("keyguard", res),
                               !.pc = "settings"]
    /\ UNCHANGED <<batchVars, dl, mc, wr, vl, cs, gc, ps, pr, lm, rc>>

\* Method 4: one turn of the loop over lockMethods.
CheckLockSetting ==
    /\ ce.pc = "settings"
    /\ LET method == LockMethods[Len(ce.seen) - 2] IN
       \E res \in LockResultSets[method.cmd] :
         ce' = IF LockSettingFires(method.name, res,
                                   ce.lockScreenDisabledLockSettingsMethod)
               THEN LockReturn(LockSeen(method.cmd, res), 4)
               ELSE [ce EXCEPT !.seen = LockSeen(method.cmd, res),
                        !.pc = IF Len(ce.seen) - 2 < Len(LockMethods)
                               THEN "settings" ELSE "policy"]
    /\ UNCHANGED <<batchVars, dl, mc, wr, vl, cs, gc, ps, pr, lm, rc>>

\* Method 5: `dumpsys device_policy`; then return false, "No lock screen
\* detected".
CheckLockPolicy ==
    /\ ce.pc = "policy"
    /\ \E res \in LockResultSets.policy :
         ce' = IF PolicyFires(res)
               THEN LockReturn(LockSeen("policy", res), 5)
               ELSE LockReturn(LockSeen("policy", res), 0)
    /\ UNCHANGED <<batchVars, dl, mc, wr, vl, cs, gc, ps, pr, lm, rc>>

NextLock ==
    \/ CallCheckExistingLockScreen
    \/ CheckLockTrust
    \/ CheckLockGetDisabled
    \/ CheckLockKeyguard
    \/ CheckLockSetting
    \/ CheckLockPolicy

SpecLock == InitLock /\ [][NextLock]_vars

\* -------------------------------------- CheckLockScreenStatus called alone
\* The five commands in the order of the code, by the names of their
\* results in StatusCommandResults.
StatusCommands ==
    <<"window", "power", "activity", "lsDisabled", "getDisabled">>

\* What each command can return.
StatusResultSets ==
    [c \in {StatusCommands[n] : n \in DOMAIN StatusCommands} |->
        {r[c] : r \in StatusCommandResults}]

\* The tests of the heuristics on the result of their command: a line of
\* the dump gives the signal.
WindowShowsLock(res) ==
    /\ res.ok /\ res.out # ""
    /\ \E n \in 1..Len(SplitLines(res.out)) :
           WindowLineLocked(SplitLines(res.out)[n])

PowerShowsSleep(res) ==
    /\ res.ok /\ res.out # ""
    /\ \E n \in 1..Len(SplitLines(res.out)) :
           PowerLineLocked(SplitLines(res.out)[n])

ActivityShowsUnlocked(res) ==
    /\ res.ok /\ res.out # ""
    /\ \E n \in 1..Len(SplitLines(res.out)) :
           ActivityLineUnlocked(SplitLines(res.out)[n])

SettingSaysDisabled(res) == res.ok /\ res.out = "1"

LockSettingsSayDisabled(res) ==
    res.ok /\ Contains(ToLower(res.out), "true")

InitStatus ==
    /\ devices = <<>>
    /\ InitBatchVars
    /\ dl = NoCall
    /\ NoOtherCalls

\* The call has issued the command and has its result.
StatusSeen(cmd, res) ==
    Append(cs.seen, [cmd |-> cmd, ok |-> res.ok, out |-> res.out])

\* return isLocked, err: heuristic by decided (0: none).
StatusReturn(seen, isLocked, err, by) ==
    [cs EXCEPT !.seen = seen, !.pc = "returned", !.locked = isLocked,
               !.err = err, !.by = by]

CallCheckLockScreenStatus ==
    /\ cs.pc = "idle"
    /\ \E t \in Targets :
         cs' = [NoStatusCheck EXCEPT !.pc = "window", !.target = t]
    /\ UNCHANGED <<batchVars, dl, mc, wr, vl, ce, gc, ps, pr, lm, rc>>

\* CheckStatusWindow, had a showing lock screen not ended the call.
CheckStatusWindow_GoesOn ==
    /\ cs.pc = "window"
    /\ \E res \in StatusResultSets.window :
         cs' = [cs EXCEPT !.seen = StatusSeen("window", res),
                          !.pc = "power"]
    /\ UNCHANGED <<batchVars, dl, mc, wr, vl, ce, gc, ps, pr, lm, rc>>

\* Method 1: `dumpsys window`.
CheckStatusWindow ==
    /\ cs.pc = "window"
    /\ \E res \in StatusResultSets.window :
         cs' = IF WindowShowsLock(res)
               THEN StatusReturn(StatusSeen("window", res), TRUE, FALSE, 1)
               ELSE [cs EXCEPT !.seen = StatusSeen("window", res),
                               !.pc = "power"]
    /\ UNCHANGED <<batchVars, dl, mc, wr, vl, ce, gc, ps, pr, lm, rc>>

\* Method 2: `dumpsys power`.
CheckStatusPower ==
    /\ cs.pc = "power"
    /\ \E res \in StatusResultSets.power :
         cs' = IF PowerShowsSleep(res)
               THEN StatusReturn(StatusSeen("power", res), TRUE, FALSE, 2)
               ELSE [cs EXCEPT !.seen = StatusSeen("power", res),
                               !.pc = "activity"]
    /\ UNCHANGED <<batchVars, dl, mc, wr, vl, ce, gc, ps, pr, lm, rc>>

\* Method 3: `dumpsys activity activities`.
CheckStatusActivity ==
    /\ cs.pc = "activity"
    /\ \E res \in StatusResultSets.activity :
         cs' = IF ActivityShowsUnlocked(res)
               THEN StatusReturn(StatusSeen("activity", res), FALSE, FALSE, 3)
               ELSE [cs EXCEPT !.seen = StatusSeen("activity", res),
                               !.pc = "lsDisabled"]
    /\ UNCHANGED <<batchVars, dl, mc, wr, vl, ce, gc, ps, pr, lm, rc>>

\* Method 4, first command: `settings get secure lockscreen.disabled`.
CheckStatusSetting ==
    /\ cs.pc = "lsDisabled"
    /\ \E res \in StatusResultSets.lsDisabled :
         cs' = IF SettingSaysDisabled(res)
               THEN StatusReturn(StatusSeen("lsDisabled", res),
                                 FALSE, FALSE, 4)
               ELSE [cs EXCEPT !.seen = StatusSeen("lsDisabled", res),
                               !.pc = "getDisabled"]
    /\ UNCHANGED <<batchVars, dl, mc, wr, vl, ce, gc, ps, pr, lm, rc>>

\* CheckStatusLockSettings, had the last return carried no error.
CheckStatusLockSettings_NilError ==
    /\ cs.pc = "getDisabled"
    /\ \E res \in StatusResultSets.getDisabled :
         cs' = IF LockSettingsSayDisabled(res)
               THEN StatusReturn(StatusSeen("getDisabled", res),
                                 FALSE, FALSE, 4)
               ELSE StatusReturn(StatusSeen("getDisabled", res),
                                 TRUE, FALSE, 0)
    /\ UNCHANGED <<batchVars, dl, mc, wr, vl, ce, gc, ps, pr, lm, rc>>

\* Method 4, second command: `locksettings get-disabled`; then return
\* true with the error.
CheckStatusLockSettings ==
    /\ cs.pc = "getDisabled"
    /\ \E res \in StatusResultSets.getDisabled :
         cs' = IF LockSettingsSayDisabled(res)
               THEN StatusReturn(StatusSeen("getDisabled", res),
                                 FALSE, FALSE, 4)
               ELSE StatusReturn(StatusSeen("getDisabled", res),
                                 TRUE, TRUE, 0)
    /\ UNCHANGED <<batchVars, dl, mc, wr, vl, ce, gc, ps, pr, lm, rc>>

NextStatus ==
    \/ CallCheckLockScreenStatus
    \/ CheckStatusWindow
    \/ CheckStatusPower
    \/ CheckStatusActivity
    \/ CheckStatusSetting
    \/ CheckStatusLockSettings

SpecStatus == InitStatus /\ [][NextStatus]_vars

\* ---------------------------------------- GetConnectedDevices called alone
\* a.targetDevices: the filter names devices and one identifier that is
\* never connected.
Filters == SeqsUpTo(Targets \cup {"D3"}, MaxFilter)

\* What adb knows of the devices: each device at most once, "device" when
\* it is online.
Listings ==
    {l \in SeqsUpTo([serial : Targets, state : {"device", "offline"}],
                    Cardinality(Targets)) :
        \A m, n \in DOMAIN l : l[m].serial = l[n].serial => m = n}

\* The line `adb devices` prints for an entry.
DeviceLine(entry) ==
    CASE entry.serial = "D1" /\ entry.state = "device"  -> "D1\tdevice"
      [] entry.serial = "D2" /\ entry.state = "device"  -> "D2\tdevice"
      [] entry.serial = "D1" /\ entry.state = "offline" -> "D1\toffline"
      [] entry.serial = "D2" /\ entry.state = "offline" -> "D2\toffline"

\* The lines of its trimmed output, as the scanner yields them.
DevicesOutput(listing) ==
    <<"List of devices attached">>
        \o [n \in DOMAIN listing |-> DeviceLine(listing[n])]

\* strings.Split(line, "\t") on the lines of the model.
SplitTab(line) ==
    CASE line = "D1\tdevice"  -> <<"D1", "device">>
      [] line = "D2\tdevice"  -> <<"D2", "device">>
      [] line = "D1\toffline" -> <<"D1", "offline">>
      [] line = "D2\toffline" -> <<"D2", "offline">>
      [] OTHER                -> <<line>>

InitDevices ==
    /\ devices = <<>>
    /\ InitBatchVars
    /\ dl = NoCall
    /\ NoOtherCalls

\* `adb devices` is run: a failure returns the empty slice at once.
\* listing keeps what adb knew, for comparison with what the scan finds.
CallGetConnectedDevices ==
    /\ gc.pc = "idle"
    /\ \E targetDevices \in Filters, listing \in Listings,
          success \in Succeeds :
         gc' = IF ~success
               THEN [pc |-> "returned", targetDevices |-> targetDevices,
                     listing |-> <<>>, success |-> FALSE,
                     output |-> <<>>, allDevices |-> <<>>,
                     devices |-> <<>>, n |-> 0, warnings |-> <<>>,
                     ret |-> <<>>]
               ELSE [pc |-> "scan", targetDevices |-> targetDevices,
                     listing |-> listing, success |-> TRUE,
                     output |-> DevicesOutput(listing),
                     allDevices |-> <<>>, devices |-> <<>>, n |-> 0,
                     warnings |-> <<>>, ret |-> <<>>]
    /\ UNCHANGED <<batchVars, dl, mc, wr, vl, ce, cs, ps, pr, lm, rc>>

\* One turn of the scanner loop: the first line is skipped, and a line
\* with "\tdevice" gives its first field.
ScanLine ==
    /\ gc.pc = "scan"
    /\ gc.n < Len(gc.output)
    /\ LET line      == TrimSpace(gc.output[gc.n + 1])
           firstLine == gc.n = 0
       IN  gc' = IF ~firstLine /\ line # "" /\ Contains(line, "\tdevice")
                    /\ Len(SplitTab(line)) > 0
                 THEN [gc EXCEPT !.n = @ + 1,
                          !.allDevices = Append(@, SplitTab(line)[1])]
                 ELSE [gc EXCEPT !.n = @ + 1]
    /\ UNCHANGED <<batchVars, dl, mc, wr, vl, ce, cs, ps, pr, lm, rc>>

\* The scan is over: with a filter the loop over it starts, without one
\* all devices are returned.
ScanDone ==
    /\ gc.pc = "scan"
    /\ gc.n = Len(gc.output)
    /\ gc' = IF Len(gc.targetDevices) > 0
             THEN [gc EXCEPT !.pc = "filter", !.n = 0]
             ELSE [gc EXCEPT !.pc = "returned", !.devices = gc.allDevices,
                             !.ret = gc.allDevices]
    /\ UNCHANGED <<batchVars, dl, mc, wr, vl, ce, cs, ps, pr, lm, rc>>

\* FilterEntry, had an entry that is not connected ended the call.
FilterEntry_Aborts ==
    /\ gc.pc = "filter"
    /\ gc.n < Len(gc.targetDevices)
    /\ LET targetDevice == gc.targetDevices[gc.n + 1] IN
       gc' = IF \E m \in DOMAIN gc.allDevices :
                    gc.allDevices[m] = targetDevice
             THEN [gc EXCEPT !.n = @ + 1,
                             !.devices = Append(@, targetDevice)]
             ELSE [gc EXCEPT !.pc = "returned",
                             !.warnings = Append(@, targetDevice),
                             !.ret = gc.devices]
    /\ UNCHANGED <<batchVars, dl, mc, wr, vl, ce, cs, ps, pr, lm, rc>>

\* One turn of the loop over targetDevices: an entry in deviceMap is
\* appended, another is logged with a warning.
FilterEntry ==
    /\ gc.pc = "filter"
    /\ gc.n < Len(gc.targetDevices)
    /\ LET targetDevice == gc.targetDevices[gc.n + 1] IN
       gc' = IF \E m \in DOMAIN gc.allDevices :
                    gc.allDevices[m] = targetDevice
             THEN [gc EXCEPT !.n = @ + 1,
                             !.devices = Append(@, targetDevice)]
             ELSE [gc EXCEPT !.n = @ + 1,
                             !.warnings = Append(@, targetDevice)]
    /\ UNCHANGED <<batchVars, dl, mc, wr, vl, ce, cs, ps, pr, lm, rc>>

\* return devices
FilterDone ==
    /\ gc.pc = "filter"
    /\ gc.n = Len(gc.targetDevices)
    /\ gc' = [gc EXCEPT !.pc = "returned", !.ret = gc.devices]
    /\ UNCHANGED <<batchVars, dl, mc, wr, vl, ce, cs, ps, pr, lm, rc>>

NextDevices ==
    \/ CallGetConnectedDevices
    \/ ScanLine
    \/ ScanDone
    \/ FilterEntry
    \/ FilterDone

SpecDevices == InitDevices /\ [][NextDevices]_vars

\* ---------------------------------------- ProcessingStats, step by step
\* The goroutines call the methods of one ProcessingStats; each method is
\* Lock, a read of the field, a write of the field, and the deferred
\* Unlock.  Slices live in a heap of backing arrays.

\* The elements of a slice.
Contents(heap, s) ==
    IF s.len = 0 THEN <<>> ELSE SubSeq(heap[s.arr], 1, s.len)

InitStats ==
    /\ devices = <<>>
    /\ InitBatchVars
    /\ dl = NoCall
    /\ NoOtherCalls

CallNewProcessingStats ==
    /\ ps.pc = "idle"
    /\ \E total \in 0..MaxDevices :
         ps' = [ps EXCEPT !.pc = "run", !.totalDevices = total]
    /\ UNCHANGED <<batchVars, dl, mc, wr, vl, ce, cs, gc, pr, lm, rc>>

\* Lock, had the mutex let every caller in.
Lock_NoMutex(c) ==
    /\ ps.pc = "run"
    /\ ps.caller[c].pc = "idle"
    /\ Len(ps.log) + Cardinality({d \in Procs : ps.caller[d].pc # "idle"})
           < MaxCalls
    /\ \E call \in {[op |-> "IncrementSuccess", arg |-> ""],
                    [op |-> "GetStats", arg |-> ""]}
                   \cup [op : {"AddFailedDevice"}, arg : Targets] :
         ps' = [ps EXCEPT
                  !.mu = c,
                  !.caller[c] =
                      IF call.op = "GetStats"
                      THEN [@ EXCEPT !.pc = "locked", !.op = call.op,
                               !.arg = call.arg, !.has = FALSE,
                               !.wrote = FALSE,
                               !.ret = NoStats.caller[c].ret,
                               !.at = <<ps.successCount,
                                        Contents(ps.heap, ps.failedDevices),
                                        ps.totalDevices>>]
                      ELSE [@ EXCEPT !.pc = "locked", !.op = call.op,
                               !.arg = call.arg]]
    /\ UNCHANGED <<batchVars, dl, mc, wr, vl, ce, cs, gc, pr, lm, rc>>

\* A goroutine calls a method and gets past ps.mu.Lock(): the mutex was
\* free.  For GetStats, at keeps the statistics of that moment and the
\* caller drops what an earlier GetStats returned.
Lock(c) ==
    /\ ps.pc = "run"
    /\ ps.caller[c].pc = "idle"
    /\ ps.mu = 0
    /\ Len(ps.log) + Cardinality({d \in Procs : ps.caller[d].pc # "idle"})
           < MaxCalls
    /\ \E call \in {[op |-> "IncrementSuccess", arg |-> ""],
                    [op |-> "GetStats", arg |-> ""]}
                   \cup [op : {"AddFailedDevice"}, arg : Targets] :
         ps' = [ps EXCEPT
                  !.mu = c,
                  !.caller[c] =
                      IF call.op = "GetStats"
                      THEN [@ EXCEPT !.pc = "locked", !.op = call.op,
                               !.arg = call.arg, !.has = FALSE,
                               !.wrote = FALSE,
                               !.ret = NoStats.caller[c].ret,
                               !.at = <<ps.successCount,
                                        Contents(ps.heap, ps.failedDevices),
                                        ps.totalDevices>>]
                      ELSE [@ EXCEPT !.pc = "locked", !.op = call.op,
                               !.arg = call.arg]]
    /\ UNCHANGED <<batchVars, dl, mc, wr, vl, ce, cs, gc, pr, lm, rc>>

\* ps.successCount++ reads the counter ...
IncrementRead(c) ==
    /\ ps.caller[c].pc = "locked"
    /\ ps.caller[c].op = "IncrementSuccess"
    /\ ps' = [ps EXCEPT !.caller[c].pc = "read",
                        !.caller[c].n = ps.successCount]
    /\ UNCHANGED <<batchVars, dl, mc, wr, vl, ce, cs, gc, pr, lm, rc>>

\* ... and writes it back, one higher.
IncrementWrite(c) ==
    /\ ps.caller[c].pc = "read"
    /\ ps.caller[c].op = "IncrementSuccess"
    /\ ps' = [ps EXCEPT !.successCount = ps.caller[c].n + 1,
                        !.caller[c].pc = "unlock",
                        !.caller[c].n = 0]
    /\ UNCHANGED <<batchVars, dl, mc, wr, vl, ce, cs, gc, pr, lm, rc>>

\* append(ps.failedDevices, deviceSerial) reads the slice ...
AppendRead(c) ==
    /\ ps.caller[c].pc = "locked"
    /\ ps.caller[c].op = "AddFailedDevice"
    /\ ps' = [ps EXCEPT !.caller[c].pc = "read",
                        !.caller[c].s = ps.failedDevices]
    /\ UNCHANGED <<batchVars, dl, mc, wr, vl, ce, cs, gc, pr, lm, rc>>

\* ... and the result is assigned to ps.failedDevices: the element goes
\* into the backing array when it has room, else into a new array of
\* twice the capacity that starts with the old elements.
AppendWrite(c) ==
    /\ ps.caller[c].pc = "read"
    /\ ps.caller[c].op = "AddFailedDevice"
    /\ LET s      == ps.caller[c].s
           x      == ps.caller[c].arg
           newcap == IF s.cap = 0 THEN 1 ELSE 2 * s.cap
       IN  ps' = IF s.len < s.cap
                 THEN [ps EXCEPT
                         !.heap[s.arr][s.len + 1] = x,
                         !.failedDevices = [s EXCEPT !.len = @ + 1],
                         !.caller[c].pc = "unlock",
                         !.caller[c].s = NilSlice]
                 ELSE [ps EXCEPT
                         !.heap = Append(@, Contents(ps.heap, s) \o <<x>>
                                     \o [k \in 1..(newcap - s.len - 1)
                                           |-> ""]),
                         !.failedDevices = [arr |-> Len(ps.heap) + 1,
                                            len |-> s.len + 1,
                                            cap |-> newcap],
                         !.caller[c].pc = "unlock",
                         !.caller[c].s = NilSlice]
    /\ UNCHANGED <<batchVars, dl, mc, wr, vl, ce, cs, gc, pr, lm, rc>>

\* failedCopy := make([]string, len(ps.failedDevices))
GetStatsMake(c) ==
    /\ ps.caller[c].pc = "locked"
    /\ ps.caller[c].op = "GetStats"
    /\ LET n == ps.failedDevices.len IN
       ps' = [ps EXCEPT
                !.heap = Append(@, [k \in 1..n |-> ""]),
                !.caller[c].pc = "read",
                !.caller[c].s = [arr |-> Len(ps.heap) + 1, len |-> n,
                                 cap |-> n]]
    /\ UNCHANGED <<batchVars, dl, mc, wr, vl, ce, cs, gc, pr, lm, rc>>

\* GetStatsCopy, had it returned ps.failedDevices itself.
GetStatsCopy_Alias(c) ==
    /\ ps.caller[c].pc = "read"
    /\ ps.caller[c].op = "GetStats"
    /\ ps' = [ps EXCEPT
                !.caller[c].pc = "unlock",
                !.caller[c].s = NilSlice,
                !.caller[c].ret = [successCount |-> ps.successCount,
                                   failed |-> ps.failedDevices,
                                   total |-> ps.totalDevices]]
    /\ UNCHANGED <<batchVars, dl, mc, wr, vl, ce, cs, gc, pr, lm, rc>>

\* copy(failedCopy, ps.failedDevices), and the return values are taken.
GetStatsCopy(c) ==
    /\ ps.caller[c].pc = "read"
    /\ ps.caller[c].op = "GetStats"
    /\ LET failedCopy == ps.caller[c].s
           from       == ps.failedDevices
       IN  ps' = [ps EXCEPT
                    !.heap = IF failedCopy.len = 0 THEN @
                             ELSE [@ EXCEPT ![failedCopy.arr] =
                                     [k \in 1..failedCopy.len |->
                                        IF k <= from.len
                                        THEN ps.heap[from.arr][k]
                                        ELSE @[k]]],
                    !.caller[c].pc = "unlock",
                    !.caller[c].s = NilSlice,
                    !.caller[c].ret = [successCount |-> ps.successCount,
                                       failed |-> failedCopy,
                                       total |-> ps.totalDevices]]
    /\ UNCHANGED <<batchVars, dl, mc, wr, vl, ce, cs, gc, pr, lm, rc>>

\* The deferred ps.mu.Unlock(), and the method returns.  log keeps the
\* calls that returned.
Unlock(c) ==
    /\ ps.caller[c].pc = "unlock"
    /\ ps' = [ps EXCEPT
                !.mu = 0,
                !.log = Append(@, [op |-> ps.caller[c].op,
                                   arg |-> ps.caller[c].arg, by |-> c]),
                !.caller[c].pc = "idle",
                !.caller[c].op = "",
                !.caller[c].arg = "",
                !.caller[c].has = @ \/ ps.caller[c].op = "GetStats"]
    /\ UNCHANGED <<batchVars, dl, mc, wr, vl, ce, cs, gc, pr, lm, rc>>

\* The caller of GetStats overwrites an element of the list it was given.
ModifyReturned(c) ==
    /\ ps.caller[c].pc = "idle"
    /\ ps.caller[c].has
    /\ ~ps.caller[c].wrote
    /\ \E k \in 1..ps.caller[c].ret.failed.len :
         ps' = [ps EXCEPT !.heap[ps.caller[c].ret.failed.arr][k] = "X",
                          !.caller[c].wrote = TRUE]
    /\ UNCHANGED <<batchVars, dl, mc, wr, vl, ce, cs, gc, pr, lm, rc>>

NextStats ==
    \/ CallNewProcessingStats
    \/ \E c \in Procs :
         \/ Lock(c)
         \/ IncrementRead(c)
         \/ IncrementWrite(c)
         \/ AppendRead(c)
         \/ AppendWrite(c)
         \/ GetStatsMake(c)
         \/ GetStatsCopy(c)
         \/ Unlock(c)
         \/ ModifyReturned(c)

SpecStats == InitStats /\ [][NextStats]_vars

\* ------------------------------------------------------ main and Run
\* The process from main to its exit.  There are two programs: "dlock",
\* cmd/dlock/main.go calling Run of the package, which the Makefile
\* builds, and "script", the single-file program with its own run.  They
\* differ in what run does when it halts before the batch.
Programs == {"dlock", "script"}

InitRun ==
    /\ devices = <<>>
    /\ InitBatchVars
    /\ dl = NoCall
    /\ NoOtherCalls

\* The process has ended with the exit code.
Exited(code, cause) ==
    [pr EXCEPT !.pc = "exited", !.exit = code, !.cause = cause]

\* run halts before the batch: Run returns, and main after it, so the
\* process ends with code 0; the script calls os.Exit(1).
Halt(cause) ==
    Exited(IF pr.program = "script" THEN 1 ELSE 0, cause)

\* main: the signal handler is installed and its goroutine started, the
\* recover is deferred, the flags are parsed and -help prints and returns.
MainStart ==
    /\ pr.pc = "idle"
    /\ \E program \in Programs, helpFlag \in BOOLEAN :
         pr' = IF helpFlag
               THEN [pr EXCEPT !.program = program, !.pc = "exited",
                               !.cause = "help"]
               ELSE [pr EXCEPT !.program = program, !.pc = "adb"]
    /\ UNCHANGED <<batchVars, dl, mc, wr, vl, ce, cs, gc, ps, lm, rc>>

\* RunCheckADB, had the failure branch lacked its return.
RunCheckADB_NoReturn ==
    /\ pr.pc = "adb"
    /\ \E version \in Succeeds :
         pr' = [pr EXCEPT !.adb = IF version THEN "ok" ELSE "fail",
                          !.pc = "list"]
    /\ UNCHANGED <<batchVars, dl, mc, wr, vl, ce, cs, gc, ps, lm, rc>>

\* Run: CheckADBAvailability runs `adb version`.
RunCheckADB ==
    /\ pr.pc = "adb"
    /\ \E version \in Succeeds :
         pr' = IF version
               THEN [pr EXCEPT !.adb = "ok", !.pc = "list"]
               ELSE [Halt("unavailable") EXCEPT !.adb = "fail"]
    /\ UNCHANGED <<batchVars, dl, mc, wr, vl, ce, cs, gc, ps, lm, rc>>

\* Run: GetConnectedDevices returns the devices, any list of the online
\* ones as the filter may repeat an identifier; with none, run halts.
RunGetDevices ==
    /\ pr.pc = "list"
    /\ \E ds \in SeqsUpTo(Targets, MaxDevices) :
         /\ devices' = ds
         /\ pr' = IF Len(ds) = 0
                  THEN [Halt("nodevices") EXCEPT !.listed = TRUE]
                  ELSE [pr EXCEPT !.listed = TRUE, !.pc = "process"]
    /\ UNCHANGED <<mainPc, launched, wg, statsVars, result, g, dl, mc, wr,
                   vl, ce, cs, gc, ps, lm, rc>>

\* Run: ProcessDevices and its goroutines.
RunProcess ==
    /\ pr.pc = "process"
    /\ Next

\* Run: the summary is logged, Run and main return.
RunSummary ==
    /\ pr.pc = "process"
    /\ mainPc = "returned"
    /\ pr' = [Exited(0, "completed") EXCEPT !.summary = TRUE]
    /\ UNCHANGED <<batchVars, dl, mc, wr, vl, ce, cs, gc, ps, lm, rc>>

\* A panic in the main goroutine: the function deferred in main recovers
\* and calls os.Exit(1).
MainPanic ==
    /\ pr.pc \in {"adb", "list", "process"}
    /\ pr' = Exited(1, "panic")
    /\ UNCHANGED <<batchVars, dl, mc, wr, vl, ce, cs, gc, ps, lm, rc>>

\* SIGINT or SIGTERM arrives: signal.Notify puts it in the channel c,
\* which holds one.
Signal ==
    /\ pr.pc \notin {"idle", "exited"}
    /\ pr.c = 0
    /\ pr' = [pr EXCEPT !.c = 1]
    /\ UNCHANGED <<batchVars, dl, mc, wr, vl, ce, cs, gc, ps, lm, rc>>

\* SignalHandler, had it waited for the goroutines before leaving.
SignalHandler_Drains ==
    /\ pr.pc \notin {"idle", "exited"}
    /\ pr.c = 1
    /\ wg = 0
    /\ pr' = [Exited(0, "interrupt") EXCEPT !.c = 0]
    /\ UNCHANGED <<batchVars, dl, mc, wr, vl, ce, cs, gc, ps, lm, rc>>

\* The goroutine of main receives from c, prints and calls os.Exit(0).
SignalHandler ==
    /\ pr.pc \notin {"idle", "exited"}
    /\ pr.c = 1
    /\ pr' = [Exited(0, "interrupt") EXCEPT !.c = 0]
    /\ UNCHANGED <<batchVars, dl, mc, wr, vl, ce, cs, gc, ps, lm, rc>>

NextRun ==
    \/ MainStart
    \/ RunCheckADB
    \/ RunGetDevices
    \/ RunProcess
    \/ RunSummary
    \/ MainPanic
    \/ Signal
    \/ SignalHandler

SpecRun == InitRun /\ [][NextRun]_vars

\* ------------------------------------------ runADBCommand, step by step
\* The call with its process and the deadline of its context.
InitCommand ==
    /\ devices = <<>>
    /\ InitBatchVars
    /\ dl = NoCall
    /\ NoOtherCalls

\* fullCommand is built, with -s and the serial when one is given, the
\* context gets its deadline, and the shell is started or cannot be.
CallRunADBCommand ==
    /\ rc.pc = "idle"
    /\ \E command \in {"version", "devices", "reboot"},
          deviceSerial \in {""} \cup Targets,
          started \in BOOLEAN :
         rc' = [rc EXCEPT
                  !.pc = "called",
                  !.fullCommand = IF deviceSerial # ""
                                  THEN <<"adb", "-s", deviceSerial, command>>
                                  ELSE <<"adb", command>>,
                  !.proc = IF started THEN "running" ELSE "nostart"]
    /\ UNCHANGED <<batchVars, dl, mc, wr, vl, ce, cs, gc, ps, pr, lm>>

\* The process ends by itself, with exit code 0 or another.
ProcessExits ==
    /\ rc.pc = "called"
    /\ rc.proc = "running"
    /\ \E kind \in {"exit0", "exitN"}, text \in {"", "x", " x\n", "\n"} :
         rc' = [rc EXCEPT !.proc = kind, !.text = text]
    /\ UNCHANGED <<batchVars, dl, mc, wr, vl, ce, cs, gc, ps, pr, lm>>

\* The 30 s are over: ctx.Err() is DeadlineExceeded from now on, and a
\* process that is still running is killed.
DeadlineExceeded ==
    /\ rc.pc = "called"
    /\ rc.proc # "nostart"
    /\ ~rc.expired
    /\ rc' = [rc EXCEPT !.expired = TRUE,
                        !.proc = IF @ = "running" THEN "timeout" ELSE @]
    /\ UNCHANGED <<batchVars, dl, mc, wr, vl, ce, cs, gc, ps, pr, lm>>

\* CombinedOutput has returned; the error is looked at and the call
\* returns.
CommandReturn ==
    /\ rc.pc = "called"
    /\ rc.proc # "running"
    /\ rc' = [rc EXCEPT
                !.pc = "returned",
                !.ret = runADBCommand([kind |-> rc.proc, text |-> rc.text,
                                       expired |-> rc.expired])]
    /\ UNCHANGED <<batchVars, dl, mc, wr, vl, ce, cs, gc, ps, pr, lm>>

NextCommand ==
    \/ CallRunADBCommand
    \/ ProcessExits
    \/ DeadlineExceeded
    \/ CommandReturn

SpecCommand == InitCommand /\ [][NextCommand]_vars


\* ---------------------------------------------------------------------
\* The batch at the level of its two mutexes: logMutex, taken by log
\* around its output, and the statistics mutex mu, taken by each method of
\* ProcessingStats.  A goroutine is at one primitive at a time: "log"
\* before logMutex.Lock, "printing" inside log, "running" in an external
\* command, "sleeping" in time.Sleep, "stats" before mu.Lock, "update"
\* inside a statistics method.  then is where it goes after the log or
\* the statistics method it is in.
InitLocks ==
    /\ devices = <<>>
    /\ InitBatchVars
    /\ dl = NoCall
    /\ NoOtherCalls

LocksIdle == <<batchVars, dl, mc, wr, vl, ce, cs, gc, ps, pr, rc>>

At(i, at, then) == [lm EXCEPT !.t[i].at = at, !.t[i].then = then]

\* ProcessDevices is called with n devices; with none it returns at once,
\* otherwise it makes the statistics and logs.
CallProcessDevices ==
    /\ lm.pc = "idle"
    /\ \E n \in 0..MaxDevices, enableLogging \in BOOLEAN :
         lm' = [lm EXCEPT
                  !.pc = IF n = 0 THEN "returned" ELSE "called",
                  !.n = n,
                  !.enableLogging = enableLogging,
                  !.t[0] = IF n = 0 THEN [@ EXCEPT !.at = "returned"]
                           ELSE [@ EXCEPT !.at = "log", !.then = "launch"]]
    /\ UNCHANGED LocksIdle

\* log with logging switched off returns before it touches the mutex.
logDisabled(i) ==
    /\ lm.t[i].at = "log"
    /\ ~lm.enableLogging
    /\ lm' = At(i, lm.t[i].then, "")
    /\ UNCHANGED LocksIdle

\* a.logMutex.Lock() returns when nobody holds the mutex.
logMutexLock(i) ==
    /\ lm.t[i].at = "log"
    /\ lm.enableLogging
    /\ lm.logMutex = {}
    /\ lm' = [lm EXCEPT !.logMutex = {i}, !.t[i].at = "printing"]
    /\ UNCHANGED LocksIdle

\* The variant that returns from log without the deferred Unlock.
logMutexUnlock_Kept(i) ==
    /\ lm.t[i].at = "printing"
    /\ lm' = At(i, lm.t[i].then, "")
    /\ UNCHANGED LocksIdle

\* Printf is over and the deferred Unlock runs as log returns.
logMutexUnlock(i) ==
    /\ lm.t[i].at = "printing"
    /\ lm' = [At(i, lm.t[i].then, "") EXCEPT !.logMutex = {}]
    /\ UNCHANGED LocksIdle

\* wg.Add(1) and the go statement for the next device; after the last
\* one the caller logs that it waits.
LaunchGoroutine ==
    /\ lm.t[0].at = "launch"
    /\ lm.launched < lm.n
    /\ LET i == lm.launched + 1 IN
         lm' = [lm EXCEPT
                  !.launched = i,
                  !.wg = @ + 1,
                  !.t[i] = [at |-> "log", then |-> "running", rounds |-> 1],
                  !.t[0] = IF i = lm.n
                           THEN [@ EXCEPT !.at = "log", !.then = "wait"]
                           ELSE @]
    /\ UNCHANGED LocksIdle

\* The external command of an orchestration returns, which every command
\* does within its timeout.  The orchestration goes on to its next step,
\* with or without a log line or a sleep before the next command, or it
\* logs its outcome and goes to the statistics.
CommandReturns(i) ==
    /\ i \in Procs
    /\ lm.t[i].at = "running"
    /\ \/ /\ lm.t[i].rounds < MaxRounds
          /\ \E at \in {"log", "running", "sleeping"} :
               lm' = [At(i, at, IF at = "log" THEN "running" ELSE "")
                        EXCEPT !.t[i].rounds = @ + 1]
       \/ lm' = At(i, "log", "stats")
    /\ UNCHANGED LocksIdle

\* time.Sleep is over; a log line or the next command follows.
SleepEnds(i) ==
    /\ lm.t[i].at = "sleeping"
    /\ \E at \in {"log", "running"} :
         lm' = At(i, at, IF at = "log" THEN "running" ELSE "")
    /\ UNCHANGED LocksIdle

\* ps.mu.Lock() of IncrementSuccess, AddFailedDevice or GetStats.
muLock(i) ==
    /\ lm.t[i].at = "stats"
    /\ lm.mu = {}
    /\ lm' = [lm EXCEPT !.mu = {i}, !.t[i].at = "update"]
    /\ UNCHANGED LocksIdle

\* The method body is over and the deferred Unlock runs: an orchestration
\* returns after it, the caller returns the statistics.
muUnlock(i) ==
    /\ lm.t[i].at = "update"
    /\ lm' = [lm EXCEPT
                !.mu = {},
                !.t[i].at = IF i = 0 THEN "returned" ELSE "return",
                !.pc = IF i = 0 THEN "returned" ELSE @]
    /\ UNCHANGED LocksIdle

\* The deferred wg.Done of an orchestration that returns.
WgDone(i) ==
    /\ i \in Procs
    /\ lm.t[i].at = "return"
    /\ lm' = [lm EXCEPT !.wg = @ - 1, !.t[i].at = "done"]
    /\ UNCHANGED LocksIdle

\* wg.Wait() returns when the counter is zero; GetStats follows.
WaitGroupWait ==
    /\ lm.t[0].at = "wait"
    /\ lm.wg = 0
    /\ lm' = At(0, "stats", "")
    /\ UNCHANGED LocksIdle

Goroutine(i) ==
    \/ logDisabled(i)
    \/ logMutexLock(i)
    \/ logMutexUnlock(i)
    \/ CommandReturns(i)
    \/ SleepEnds(i)
    \/ muLock(i)
    \/ muUnlock(i)
    \/ WgDone(i)

NextLocks ==
    \/ CallProcessDevices
    \/ LaunchGoroutine
    \/ WaitGroupWait
    \/ \E i \in Threads : Goroutine(i)

SpecLocks == InitLocks /\ [][NextLocks]_vars

\* Every goroutine that can take a step eventually takes one: the
\* scheduler is fair and every external command and sleep ends.
FairSpecLocks ==
    /\ SpecLocks
    /\ WF_vars(LaunchGoroutine)
    /\ WF_vars(WaitGroupWait)
    /\ \A i \in Threads : WF_vars(Goroutine(i))

\* ============================================================ claims
\* The terminal outcome a goroutine recorded.
TerminalOutcome(rec) ==
    IF rec.calls = <<"IncrementSuccess">> THEN "SUCCESS"
    ELSE IF rec.calls = <<"AddFailedDevice">> THEN "FAILED"
    ELSE "none"

Terminated(rec) == rec.pc \in {"ret", "done"}

\* The goroutines of the batch that recorded the given outcome.
Ended(outcome) ==
    {i \in DOMAIN devices : TerminalOutcome(g[i]) = outcome}

\* C1: ProcessDevices returns totalCount = len(T) and successCount +
\* len(failedTargets) = totalCount, for every list T, the empty one
\* included; each target has then exactly one outcome, SUCCESS or FAILED.
C1_TotalsAddUp ==
    mainPc = "returned" =>
        /\ result[3] = Len(devices)
        /\ result[1] + Len(result[2]) = result[3]
        /\ \A i \in DOMAIN devices :
               TerminalOutcome(g[i]) \in {"SUCCESS", "FAILED"}

C1_Witness ==
    /\ mainPc = "returned"
    /\ Len(devices) = 2
    /\ result[1] = 1
    /\ Len(result[2]) = 1

\* C2: on every path an orchestration calls exactly one of IncrementSuccess
\* and AddFailedDevice, exactly once, and before wg.Done: it has made no
\* call before it returns and exactly one when it returns and when it is done.
C2_OneStatisticsUpdate ==
    \A i \in Procs :
        /\ Len(g[i].calls) <= 1
        /\ Terminated(g[i]) <=> Len(g[i].calls) = 1

C2_Witness ==
    /\ Len(devices) = 2
    /\ g[1].pc = "done" /\ g[1].calls = <<"AddFailedDevice">>
    /\ g[2].pc = "done" /\ g[2].calls = <<"IncrementSuccess">>

\* C3: ProcessDevices takes its snapshot and returns only when every
\* orchestration it launched is done and its statistics update is applied.
C3_ReturnsAfterAll ==
    /\ mainPc \in {"stats", "returned"} =>
           \A i \in DOMAIN devices :
               g[i].pc = "done" /\ Len(g[i].calls) = 1
    /\ mainPc = "returned" /\ devices # <<>> =>
           /\ result[1] = Cardinality(Ended("SUCCESS"))
           /\ Len(result[2]) = Cardinality(Ended("FAILED"))

C3_Witness ==
    /\ mainPc = "returned"
    /\ Len(devices) = 2
    /\ g[1].ready = "no"
    /\ g[2].valid = "yes"
    /\ result = <<1, <<devices[1]>>, 2>>

\* C4: a target whose own steps are scheduled fairly reaches its terminal
\* state, whatever the other targets do, even if they never take a step.
C4_NotBlockedByOthers ==
    \A i \in Procs :
        WF_vars(DisableLockscreenOnDeviceAsync(i)) =>
            ((i \in DOMAIN devices) ~> (g[i].pc = "done"))

\* The second target is done while the first still waits for its device.
C4_Witness ==
    /\ Len(devices) = 2
    /\ g[1].pc = "wait"
    /\ g[2].pc = "done"

\* The outcome the command results of one target determine: the results of
\* its permission commands, of its lock inspection, of its strategies, of
\* its reboot and of its readiness wait.
OutcomeOf(rec) ==
    IF rec.shell = "fail" \/ rec.list \in {"fail", "empty"} THEN "FAILED"
    ELSE IF rec.lock = "no" THEN "SUCCESS"
    ELSE IF rec.okAt = 0 THEN "FAILED"
    ELSE IF rec.reboot = "no" THEN "SUCCESS"
    ELSE IF rec.ready = "no" THEN "FAILED"
    ELSE "SUCCESS"

\* C5: the outcome of a target is a function of the results of the
\* commands issued against it alone: in every run, under every
\* interleaving and whatever the other targets returned and recorded, a
\* target that ended has the outcome OutcomeOf gives for its own results, so
\* two runs with the same results for it give it the same outcome.
C5_OutcomeOfOwnResults ==
    \A i \in DOMAIN devices :
        Terminated(g[i]) => TerminalOutcome(g[i]) = OutcomeOf(g[i])

\* The second target passed its wait and ended SUCCESS on a failed
\* validation although the first target had already been recorded as failed.
C5_Witness ==
    /\ Len(devices) = 2
    /\ g[1].pc = "done" /\ g[1].ready = "no"
    /\ g[2].pc = "done" /\ g[2].valid = "no"
    /\ failedDevices = <<devices[1]>>
    /\ successCount = 1

\* C6: when the permission check passed and no lock is reported, the
\* orchestration ends SUCCESS with no strategy attempted, no reboot, no
\* readiness wait and no validation.
C6_NoLockIsNoOp ==
    \A i \in Procs :
        g[i].perm = "yes" /\ g[i].lock = "no" =>
            /\ Terminated(g[i])
            /\ TerminalOutcome(g[i]) = "SUCCESS"
            /\ g[i].tried = <<>>
            /\ g[i].reboot = "none"
            /\ g[i].ready = "none"
            /\ g[i].valid = "none"

C6_Witness ==
    \E i \in DOMAIN devices :
        /\ g[i].perm = "yes" /\ g[i].lock = "no"
        /\ g[i].pc = "done"
        /\ successCount = 1

\* C7: when the permission check fails (no shell access, or the settings
\* list fails or is empty), the orchestration ends FAILED with the target
\* in failedDevices, and no lock inspection, strategy, reboot, wait or
\* validation is performed.
C7_NoPermissionFails ==
    \A i \in Procs :
        g[i].shell = "fail" \/ g[i].list \in {"fail", "empty"} =>
            /\ Terminated(g[i])
            /\ TerminalOutcome(g[i]) = "FAILED"
            /\ \E n \in DOMAIN failedDevices : failedDevices[n] = devices[i]
            /\ g[i].lock = "none"
            /\ g[i].tried = <<>>
            /\ g[i].reboot = "none"
            /\ g[i].ready = "none"
            /\ g[i].valid = "none"

C7_Witness ==
    \E i \in DOMAIN devices :
        /\ g[i].shell = "ok" /\ g[i].list = "empty"
        /\ g[i].pc = "done"
        /\ failedDevices = <<devices[i]>>

\* C8: in the orchestration, every attempt is of the strategy after the
\* ones already attempted, in the order 1, 2, 3, 4, and is made only while
\* no strategy has succeeded: after a success nothing more is attempted.
C8_CascadeOrder ==
    [][\A i \in Procs :
          g'[i].tried # g[i].tried =>
              /\ g[i].okAt = 0
              /\ Len(g[i].tried) < NumMethods
              /\ g'[i].tried = Append(g[i].tried, Len(g[i].tried) + 1)
              /\ \A n \in DOMAIN g[i].tried : g[i].tried[n] = n]_vars

C8_Witness ==
    \E i \in DOMAIN devices :
        /\ g[i].tried = <<1, 2, 3>>
        /\ g[i].okAt = 3
        /\ g[i].pc = "done"

\* C9: DisableLockScreen returns true when at least one of the four
\* strategies succeeded and false only when all four failed.
C9_DisableLockScreenResult ==
    dl.pc = "returned" =>
        (dl.ret <=> \E n \in DOMAIN dl.tried : dl.tried[n].out = "ok")

\* C10: DisableLockScreen stops at the first success: no strategy is
\* attempted after one that returned true.
C10_DisableLockScreenStops ==
    \A n \in DOMAIN dl.tried :
        dl.tried[n].out = "ok" => n = Len(dl.tried)

\* Whether the statistics list the device of goroutine i as failed.
InFailedDevices(i) ==
    \E n \in DOMAIN failedDevices : failedDevices[n] = devices[i]

\* C11: when all four strategies have been attempted for a target and none
\* succeeded, its orchestration has ended FAILED, the target is in the
\* list of failed devices, and no reboot command was issued for it.
C11_AllStrategiesFailed ==
    \A i \in DOMAIN devices :
        (Len(g[i].tried) = NumMethods /\ g[i].okAt = 0) =>
            /\ Terminated(g[i])
            /\ TerminalOutcome(g[i]) = "FAILED"
            /\ InFailedDevices(i)
            /\ g[i].reboot = "none"

\* A target whose fourth strategy returned failure like the three before
\* it, after the caller had its statistics.
C11_Witness ==
    \E i \in DOMAIN devices :
        /\ g[i].tried = <<1, 2, 3, 4>>
        /\ g[i].okAt = 0
        /\ g[i].last = "fail"
        /\ g[i].pc = "done"
        /\ mainPc = "returned"
        /\ InFailedDevices(i)

\* C12: in the orchestration's cascade the 1 s pause follows every
\* unsuccessful attempt that another attempt follows: a goroutine about to
\* attempt strategy k+1 has slept since strategy k did not succeed, whether
\* k returned failure or its panic was recovered.
C12_PauseBetweenAttempts ==
    \A i \in DOMAIN devices :
        (g[i].pc = "method" /\ g[i].tried # <<>>) => g[i].slept

\* C13: a panic of strategy k is recovered inside the turn of the loop and
\* counts as the strategy's failure.  The step in which it happens changes
\* nothing but the goroutine's own record: before the last strategy the
\* goroutine stays in the loop with no statistics method called, and its
\* next step attempts strategy k+1; at the last strategy it ends FAILED
\* with one statistics call.  A target all of whose strategies were
\* attempted without success has ended FAILED with one statistics call.
C13_PanicIsFailure ==
    [][\A i \in Procs :
          /\ (g'[i].tried # g[i].tried /\ g'[i].last = "panic") =>
                /\ g'[i].okAt = 0
                /\ mainPc' = mainPc
                /\ \A j \in Procs \ {i} : g'[j] = g[j]
                /\ IF Len(g'[i].tried) < NumMethods
                   THEN /\ g'[i].pc = "method"
                        /\ g'[i].calls = <<>>
                        /\ UNCHANGED statsVars
                   ELSE /\ Terminated(g'[i])
                        /\ TerminalOutcome(g'[i]) = "FAILED"
          /\ (g[i].last = "panic" /\ g[i].pc = "method" /\ g'[i] # g[i]) =>
                g'[i].tried = Append(g[i].tried, Len(g[i].tried) + 1)
          /\ (Len(g'[i].tried) = NumMethods /\ g'[i].okAt = 0) =>
                /\ Terminated(g'[i])
                /\ TerminalOutcome(g'[i]) = "FAILED"]_vars

\* The first target's fourth strategy panicked; the target ended FAILED,
\* the second target ended SUCCESS after a validated reboot, and the caller
\* has the statistics of both.
C13_Witness ==
    /\ Len(devices) = 2
    /\ g[1].tried = <<1, 2, 3, 4>>
    /\ g[1].last = "panic"
    /\ g[1].calls = <<"AddFailedDevice">>
    /\ g[2].valid = "yes"
    /\ g[2].calls = <<"IncrementSuccess">>
    /\ mainPc = "returned"
    /\ result = <<1, <<devices[1]>>, 2>>

\* C14: disableLockscreenMethod4 issues both of its commands whatever the
\* first returned, and returns true exactly when at least one of the two
\* succeeded: so it returns true when the first failed and the second
\* succeeded.
C14_Method4AnyCommand ==
    mc.k = 4 =>
        /\ \A n \in DOMAIN mc.issued : mc.issued[n].cmd = MethodCommands(4)[n]
        /\ Len(mc.issued) < 2 => mc.pc = "run"
        /\ mc.pc = "returned" =>
              /\ Len(mc.issued) = 2
              /\ mc.ret <=> (mc.issued[1].ok \/ mc.issued[2].ok)

\* The first command failed, the second was issued and succeeded, and the
\* strategy returned true.
C14_Witness ==
    /\ mc.k = 4
    /\ mc.pc = "returned"
    /\ Len(mc.issued) = 2
    /\ ~mc.issued[1].ok
    /\ mc.issued[2].ok
    /\ mc.ret

\* C15: a target whose reboot command failed after a strategy had
\* succeeded has ended SUCCESS, and neither WaitForDeviceReady nor
\* ValidateLockScreenRemoval was called for it.
C15_RefusedRebootIsSuccess ==
    \A i \in DOMAIN devices :
        g[i].reboot = "no" =>
            /\ g[i].okAt # 0
            /\ Terminated(g[i])
            /\ TerminalOutcome(g[i]) = "SUCCESS"
            /\ g[i].ready = "none"
            /\ g[i].valid = "none"

C15_Witness ==
    \E i \in DOMAIN devices :
        /\ g[i].okAt = 2
        /\ g[i].reboot = "no"
        /\ g[i].pc = "done"
        /\ successCount > 0

\* C16: a target whose reboot command was accepted and for which
\* WaitForDeviceReady(target, 5) returned false has ended FAILED, is in the
\* list of failed devices, and ValidateLockScreenRemoval was not called for
\* it.
C16_NotReadyIsFailure ==
    \A i \in DOMAIN devices :
        g[i].ready = "no" =>
            /\ g[i].reboot = "yes"
            /\ Terminated(g[i])
            /\ TerminalOutcome(g[i]) = "FAILED"
            /\ InFailedDevices(i)
            /\ g[i].valid = "none"
            /\ g[i].status = "none"

C16_Witness ==
    \E i \in DOMAIN devices :
        /\ g[i].reboot = "yes"
        /\ g[i].ready = "no"
        /\ g[i].pc = "done"
        /\ InFailedDevices(i)

\* C17: WaitForDeviceReady(target, m) issues at most 12*m get-state
\* commands, whatever the commands return; it returns false only after 12*m
\* failed attempts (12 for m = 1); and every call returns.
C17_WaitGivesUp ==
    /\ [](/\ wr.polls <= 12 * wr.maxWaitMinutes
          /\ wr.attempt <= 12 * wr.maxWaitMinutes
          /\ (wr.pc = "returned" /\ ~wr.ret) =>
                /\ wr.attempt = 12 * wr.maxWaitMinutes
                /\ wr.polls = 12 * wr.maxWaitMinutes
          /\ (wr.pc = "returned" /\ wr.maxWaitMinutes = 1) => wr.polls <= 12)
    /\ (wr.pc # "idle") ~> (wr.pc = "returned")

\* WaitForDeviceReady(target, 1) returned false after 12 attempts, the last
\* of which found the device addressable but its shell unresponsive.
C17_Witness ==
    /\ wr.pc = "returned"
    /\ ~wr.ret
    /\ wr.maxWaitMinutes = 1
    /\ wr.polls = 12
    /\ wr.shell = "fail"

\* C18: WaitForDeviceReady returns true exactly when get-state and then
\* the shell command succeeded in one attempt, and it returns in that
\* attempt; the shell command is issued only after get-state succeeded in
\* the same attempt; and an attempt is counted as failed when get-state
\* failed and also when get-state succeeded and the shell command failed.
C18_WaitReturnsTrue ==
    /\ wr.shell # "none" => wr.state = "ok"
    /\ wr.pc = "returned" => (wr.ret <=> (wr.state = "ok" /\ wr.shell = "ok"))
    /\ (wr.state = "ok" /\ wr.shell = "ok") =>
          /\ wr.pc = "returned"
          /\ wr.ret
          /\ wr.polls = wr.attempt + 1
    /\ wr.pc = "shell" =>
          /\ wr.state = "ok"
          /\ wr.shell = "none"
          /\ wr.polls = wr.attempt + 1
    /\ wr.pc = "test" => wr.polls = wr.attempt
    /\ (wr.pc = "returned" /\ ~wr.ret) => wr.polls = wr.attempt

\* The first attempt found no device, the second a device without a
\* shell, and the third a device with one: the function returned true with
\* two failed attempts counted.
C18_Witness ==
    /\ wr.pc = "returned"
    /\ wr.ret
    /\ wr.attempt = 2
    /\ wr.polls = 3
    /\ wr.state = "ok"
    /\ wr.shell = "ok"

\* C19: ValidateLockScreenRemoval makes at most two status checks; the
\* wake-up key event and the second check are made exactly when the first
\* check returned an error; it returns false when the second check returned
\* an error too, and otherwise true exactly when the last check, which
\* could tell, reported the device not locked.
C19_ValidateTwoChecks ==
    /\ Len(vl.checks) <= 2
    /\ Len(vl.wake) <= 1
    /\ Len(vl.wake) = 1 => (Len(vl.checks) >= 1 /\ vl.checks[1].err)
    /\ Len(vl.checks) = 2 => Len(vl.wake) = 1
    /\ vl.pc = "returned" =>
          /\ Len(vl.checks) >= 1
          /\ vl.checks[1].err <=> Len(vl.wake) = 1
          /\ vl.checks[1].err <=> Len(vl.checks) = 2
          /\ IF vl.checks[Len(vl.checks)].err
             THEN ~vl.ret
             ELSE vl.ret <=> ~vl.checks[Len(vl.checks)].locked

\* The first check could not tell, the device was woken, the second check
\* found it not locked, and the function returned true.
C19_Witness ==
    /\ vl.pc = "returned"
    /\ Len(vl.checks) = 2
    /\ vl.checks[1].err
    /\ Len(vl.wake) = 1
    /\ ~vl.checks[2].err
    /\ ~vl.checks[2].locked
    /\ vl.ret

\* C20, as stated: a target whose validation could not tell the lock state
\* even at its second status check has ended FAILED.
C20_IndeterminateIsFailure ==
    \A i \in DOMAIN devices :
        g[i].status = "indeterminate" =>
            /\ Terminated(g[i])
            /\ TerminalOutcome(g[i]) = "FAILED"

\* C20, amended: a target whose validation could not tell the lock state
\* even at its second status check has a validation that returned false
\* and has ended SUCCESS, with nothing added to the list of failed devices.
C20_IndeterminateIsSuccess ==
    \A i \in DOMAIN devices :
        g[i].status = "indeterminate" =>
            /\ g[i].valid = "no"
            /\ Terminated(g[i])
            /\ TerminalOutcome(g[i]) = "SUCCESS"
            /\ ~InFailedDevices(i) \/ \E j \in DOMAIN devices :
                   j # i /\ devices[j] = devices[i]

C20_Witness ==
    \E i \in DOMAIN devices :
        /\ g[i].ready = "yes"
        /\ g[i].status = "indeterminate"
        /\ g[i].valid = "no"
        /\ g[i].pc = "done"
        /\ failedDevices = <<>>

\* C21: a target whose validation ran was ready after its reboot and has
\* ended SUCCESS, whether ValidateLockScreenRemoval returned true or false,
\* and, when false, whether the lock was still shown or the state could
\* not be told.
C21_ValidatedIsSuccess ==
    \A i \in DOMAIN devices :
        g[i].valid # "none" =>
            /\ g[i].ready = "yes"
            /\ g[i].status \in {"unlocked", "locked", "indeterminate"}
            /\ g[i].valid = "yes" <=> g[i].status = "unlocked"
            /\ Terminated(g[i])
            /\ TerminalOutcome(g[i]) = "SUCCESS"
            /\ successCount >= 1

\* Two targets were validated after their reboots, one found unlocked and
\* one still locked, and the caller has two successes.
C21_Witness ==
    /\ Len(devices) = 2
    /\ g[1].valid = "yes"
    /\ g[2].valid = "no"
    /\ g[2].status = "locked"
    /\ result = <<2, <<>>, 2>>

\* C22: the steps of one target's orchestration are gated.  A strategy is
\* attempted only after the permission check passed and a lock was found;
\* the reboot is issued only after a strategy succeeded; the wait only
\* after the reboot was accepted; the validation only after the wait
\* returned true; and once the statistics method was called the goroutine
\* does nothing but signal the WaitGroup.
C22_StepsGated ==
    /\ [](\A i \in Procs :
            /\ (g[i].pc = "method" \/ g[i].tried # <<>>) =>
                  (g[i].perm = "yes" /\ g[i].lock = "yes")
            /\ g[i].lock # "none" => g[i].perm = "yes"
            /\ (g[i].pc = "reboot" \/ g[i].reboot # "none") =>
                  (g[i].okAt # 0 /\ g[i].okAt = Len(g[i].tried))
            /\ (g[i].pc = "wait" \/ g[i].ready # "none") =>
                  g[i].reboot = "yes"
            /\ (g[i].pc = "validate" \/ g[i].valid # "none") =>
                  g[i].ready = "yes"
            /\ g[i].calls # <<>> => Terminated(g[i]))
    /\ [][\A i \in Procs :
            Terminated(g[i]) =>
                /\ [g'[i] EXCEPT !.pc = "done"] = [g[i] EXCEPT !.pc = "done"]
                /\ g'[i].pc \in {g[i].pc, "done"}
                /\ g[i].pc = "done" => g'[i] = g[i]]_vars

\* A target went through every step: permissions, lock, two strategies,
\* reboot, wait and validation, and signalled the WaitGroup.
C22_Witness ==
    \E i \in DOMAIN devices :
        /\ g[i].perm = "yes"
        /\ g[i].lock = "yes"
        /\ g[i].tried = <<1, 2>>
        /\ g[i].okAt = 2
        /\ g[i].reboot = "yes"
        /\ g[i].ready = "yes"
        /\ g[i].valid = "yes"
        /\ g[i].pc = "done"

\* What a call of CheckExistingLockScreen has from a command: its result,
\* or a failure when the command was not issued.
LockIssued(cmd) == \E n \in DOMAIN ce.seen : ce.seen[n].cmd = cmd

LockResult(cmd) ==
    IF LockIssued(cmd)
    THEN LET n == CHOOSE n \in DOMAIN ce.seen : ce.seen[n].cmd = cmd
         IN  [ok |-> ce.seen[n].ok, out |-> ce.seen[n].out]
    ELSE [ok |-> FALSE, out |-> ""]

LockResults ==
    [c \in {LockCommands[n] : n \in DOMAIN LockCommands} |-> LockResult(c)]

\* Whether locksettings was seen to report the lock screen disabled.
LockDisabledSeen ==
    LockResult("getDisabled").ok
        /\ LockSettingsDisabled(LockResult("getDisabled"))

\* Whether heuristic k fires on the results the call has.
LockHeuristicFires(k) ==
    CASE k = 1 -> TrustFires(LockResult("trust"))
      [] k = 2 -> LockSettingsFires(LockResult("getDisabled"))
      [] k = 3 -> KeyguardFires(LockResult("keyguard"))
      [] k = 4 -> \E m \in DOMAIN LockMethods :
                     LockSettingFires(LockMethods[m].name,
                                      LockResult(LockMethods[m].cmd),
                                      LockDisabledSeen)
      [] k = 5 -> PolicyFires(LockResult("policy"))

\* C23: CheckExistingLockScreen issues its commands in the order trust,
\* locksettings, KeyguardService, the three secure settings, device
\* policy; it returns present at the first heuristic that fires, having
\* issued no command after the one that fired; and it returns not present
\* exactly when all seven commands were issued and no heuristic fired.  The
\* result is the one CheckExistingLockScreen computes in the batch.
C23_FirstHeuristicReturns ==
    /\ \A n \in DOMAIN ce.seen : ce.seen[n].cmd = LockCommands[n]
    /\ ce.pc = "returned" =>
          /\ ce.present <=> ce.by # 0
          /\ ce.present <=> \E k \in 1..5 : LockHeuristicFires(k)
          /\ ce.present =>
                /\ LockHeuristicFires(ce.by)
                /\ \A j \in 1..(ce.by - 1) : ~LockHeuristicFires(j)
          /\ Len(ce.seen) = CASE ce.by \in 1..3 -> ce.by
                              [] ce.by = 4 ->
                                   3 + CHOOSE m \in DOMAIN LockMethods :
                                         /\ LockSettingFires(
                                              LockMethods[m].name,
                                              LockResult(LockMethods[m].cmd),
                                              LockDisabledSeen)
                                         /\ \A l \in 1..(m - 1) :
                                              ~LockSettingFires(
                                                LockMethods[l].name,
                                                LockResult(LockMethods[l].cmd),
                                                LockDisabledSeen)
                              [] OTHER -> Len(LockCommands)
          /\ CheckExistingLockScreen(LockResults) =
                [present |-> ce.present, by |-> ce.by]

\* The trust dump showed nothing, locksettings failed, and the keyguard
\* dump showed a lock: the call returned there, with three commands issued.
C23_Witness ==
    /\ ce.pc = "returned"
    /\ ce.present
    /\ ce.by = 3
    /\ Len(ce.seen) = 3
    /\ ~ce.seen[2].ok

\* C24: a lockscreen.disabled of "0" does not make the result present once
\* locksettings was seen to report the lock screen disabled; it makes the
\* result present only when the get-disabled command failed.
C24_DisabledFlagSuppresses ==
    /\ ce.lockScreenDisabledLockSettingsMethod <=> LockDisabledSeen
    /\ LockIssued("lsDisabled") =>
          (~LockResult("getDisabled").ok \/ LockDisabledSeen)
    /\ (LockIssued("lsDisabled") /\ LockDisabledSeen) =>
          ~(ce.pc = "returned" /\ ce.by = 4)
    /\ (ce.pc = "returned" /\ ce.by = 4 /\ Len(ce.seen) = 6) =>
          /\ ~LockResult("getDisabled").ok
          /\ LockResult("lsDisabled").ok
          /\ LockResult("lsDisabled").out = "0"

\* locksettings reported "true", lockscreen.disabled was "0", and the call
\* returned that no lock was found.
C24_Witness ==
    /\ ce.pc = "returned"
    /\ ~ce.present
    /\ LockResult("getDisabled").out = "true"
    /\ LockResult("lsDisabled").ok
    /\ LockResult("lsDisabled").out = "0"

\* C25, as stated: when locksettings reports "true" the call returns that
\* no lock was found, with no later command issued.
C25_DisabledMeansNoLock ==
    (ce.pc = "returned" /\ LockDisabledSeen) =>
        (~ce.present /\ Len(ce.seen) = 2)

\* C25, amended: when locksettings reports "true" the call does not return
\* at that heuristic; it goes on to the keyguard dump, the secure settings
\* and the device policy, returns present when the keyguard dump, the
\* pattern setting, the password type or the device policy fires, and
\* returns that no lock was found only after all seven commands.
C25_DisabledGoesOn ==
    LockDisabledSeen =>
        /\ ce.lockScreenDisabledLockSettingsMethod
        /\ ce.pc # "getDisabled"
        /\ ce.pc = "returned" =>
              /\ Len(ce.seen) >= 3
              /\ ce.present <=>
                    \/ KeyguardFires(LockResult("keyguard"))
                    \/ LockSettingFires("lock_pattern_enabled",
                                        LockResult("pattern"), TRUE)
                    \/ LockSettingFires("password_type",
                                        LockResult("pwtype"), TRUE)
                    \/ PolicyFires(LockResult("policy"))
              /\ ~ce.present => Len(ce.seen) = Len(LockCommands)

\* locksettings reported "true" and the call still found a lock, by the
\* password type.
C25_Witness ==
    /\ ce.pc = "returned"
    /\ ce.present
    /\ ce.by = 4
    /\ Len(ce.seen) = 5
    /\ LockResult("getDisabled").out = "true"

\* What a call of CheckLockScreenStatus has from a command: its result, or
\* a failure when the command was not issued.
StatusIssued(cmd) == \E n \in DOMAIN cs.seen : cs.seen[n].cmd = cmd

StatusResult(cmd) ==
    IF StatusIssued(cmd)
    THEN LET n == CHOOSE n \in DOMAIN cs.seen : cs.seen[n].cmd = cmd
         IN  [ok |-> cs.seen[n].ok, out |-> cs.seen[n].out]
    ELSE [ok |-> FALSE, out |-> ""]

StatusResultsSeen ==
    [c \in {StatusCommands[n] : n \in DOMAIN StatusCommands} |->
        StatusResult(c)]

\* Whether the command at place n of StatusCommands gives a definitive
\* signal on the result the call has.
StatusDefinitive(n) ==
    CASE n = 1 -> WindowShowsLock(StatusResult("window"))
      [] n = 2 -> PowerShowsSleep(StatusResult("power"))
      [] n = 3 -> ActivityShowsUnlocked(StatusResult("activity"))
      [] n = 4 -> SettingSaysDisabled(StatusResult("lsDisabled"))
      [] n = 5 -> LockSettingsSayDisabled(StatusResult("getDisabled"))

\* C26: CheckLockScreenStatus issues its commands in the order window,
\* power, activity, settings, and returns at the first definitive signal,
\* locked for the first two and not locked for the others, with no error
\* and no later command issued; when none is definitive it returns locked
\* with an error after all five commands.  An error implies locked, and a
\* result decided by a heuristic carries no error.  The result is the one
\* CheckLockScreenStatus computes in the batch.
C26_FirstDefinitiveSignal ==
    /\ \A n \in DOMAIN cs.seen : cs.seen[n].cmd = StatusCommands[n]
    /\ cs.err => cs.locked
    /\ cs.pc = "returned" =>
          /\ cs.err <=> cs.by = 0
          /\ cs.err <=> \A n \in 1..5 : ~StatusDefinitive(n)
          /\ cs.err => Len(cs.seen) = Len(StatusCommands)
          /\ ~cs.err =>
                /\ StatusDefinitive(Len(cs.seen))
                /\ \A n \in 1..(Len(cs.seen) - 1) : ~StatusDefinitive(n)
                /\ cs.by = IF Len(cs.seen) = 5 THEN 4 ELSE Len(cs.seen)
                /\ cs.locked <=> Len(cs.seen) \in {1, 2}
          /\ CheckLockScreenStatus(StatusResultsSeen) =
                [locked |-> cs.locked, err |-> cs.err, by |-> cs.by]

\* No command gave a signal: the call returned locked with the error.
C26_Witness ==
    /\ cs.pc = "returned"
    /\ cs.locked
    /\ cs.err
    /\ Len(cs.seen) = 5
    /\ cs.seen[1].ok
    /\ cs.seen[5].ok

\* The online devices of a listing, in listing order.
Online(listing) ==
    LET IsOnline(entry) == entry.state = "device"
        online == SelectSeq(listing, IsOnline)
    IN  [n \in DOMAIN online |-> online[n].serial]

\* C27: when `adb devices` succeeded, GetConnectedDevices with a filter
\* returns the entries of the filter that are online, in the filter's
\* order, with one warning for each entry that is not online and none for
\* the others, whatever comes after it in the filter; without a filter it
\* returns the online devices in listing order and warns of nothing.
C27_FilterOnline ==
    (gc.pc = "returned" /\ gc.success) =>
        LET online == Online(gc.listing)
            IsOn(serial) == \E n \in DOMAIN online : online[n] = serial
            IsOff(serial) == ~IsOn(serial)
        IN  /\ gc.allDevices = online
            /\ IF gc.targetDevices # <<>>
               THEN /\ gc.ret = SelectSeq(gc.targetDevices, IsOn)
                    /\ gc.warnings = SelectSeq(gc.targetDevices, IsOff)
               ELSE /\ gc.ret = online
                    /\ gc.warnings = <<>>

\* D1 and D2 are online and the filter is D1, D3: the call returned D1 and
\* warned of D3.
C27_Witness ==
    /\ gc.pc = "returned"
    /\ gc.listing = <<[serial |-> "D1", state |-> "device"],
                      [serial |-> "D2", state |-> "device"]>>
    /\ gc.targetDevices = <<"D1", "D3">>
    /\ gc.ret = <<"D1">>
    /\ gc.warnings = <<"D3">>

\* How many calls of a method, with an argument, have returned.
Returned(op, arg) ==
    Cardinality({n \in DOMAIN ps.log :
                    ps.log[n].op = op /\ ps.log[n].arg = arg})

\* How often an identifier is in ps.failedDevices.
TimesFailed(t) ==
    LET failed == Contents(ps.heap, ps.failedDevices)
    IN  Cardinality({n \in DOMAIN failed : failed[n] = t})

\* C28: at most one goroutine is between Lock and Unlock of
\* IncrementSuccess, AddFailedDevice or GetStats, and whenever no call is
\* under way successCount is the number of IncrementSuccess calls that
\* returned and failedDevices holds each identifier as often as
\* AddFailedDevice was called with it, and nothing else.
C28_ExclusiveNoLostUpdate ==
    /\ Cardinality({c \in Procs : ps.caller[c].pc # "idle"}) <= 1
    /\ (\A c \in Procs : ps.caller[c].pc = "idle") =>
          /\ ps.successCount = Returned("IncrementSuccess", "")
          /\ \A t \in Targets :
                TimesFailed(t) = Returned("AddFailedDevice", t)
          /\ ps.failedDevices.len =
                Cardinality({n \in DOMAIN ps.log :
                                ps.log[n].op = "AddFailedDevice"})

\* Two goroutines have made all the calls between them, IncrementSuccess
\* and AddFailedDevice among them, and none is under way.
C28_Witness ==
    /\ \A c \in Procs : ps.caller[c].pc = "idle"
    /\ Len(ps.log) = MaxCalls
    /\ \E m, n \in DOMAIN ps.log :
          /\ ps.log[m].by # ps.log[n].by
          /\ ps.log[m].op = "IncrementSuccess"
          /\ ps.log[n].op = "AddFailedDevice"
    /\ ps.successCount > 0
    /\ ps.failedDevices.len > 0

\* C29: what GetStats returned stays, until its caller changes it, the
\* statistics of the moment the call had the mutex, whatever
\* AddFailedDevice and IncrementSuccess do later; and a caller's write to
\* the list it was given leaves successCount, failedDevices and
\* totalDevices as they are.
C29_GetStatsCopies ==
    /\ [](\A c \in Procs :
            (ps.caller[c].has /\ ~ps.caller[c].wrote) =>
                <<ps.caller[c].ret.successCount,
                  Contents(ps.heap, ps.caller[c].ret.failed),
                  ps.caller[c].ret.total>> = ps.caller[c].at)
    /\ [][(\E c \in Procs : ~ps.caller[c].wrote /\ ps'.caller[c].wrote) =>
            /\ ps'.successCount = ps.successCount
            /\ Contents(ps'.heap, ps'.failedDevices)
                   = Contents(ps.heap, ps.failedDevices)
            /\ ps'.totalDevices = ps.totalDevices]_vars

\* A caller was given a list of one device, AddFailedDevice has run since,
\* and the caller has overwritten the element of its list.
C29_Witness ==
    \E c \in Procs :
        /\ ps.caller[c].has
        /\ ps.caller[c].wrote
        /\ ps.caller[c].ret.failed.len = 1
        /\ ps.failedDevices.len = 2
        /\ Contents(ps.heap, ps.failedDevices)[1] # "X"

\* C30: once NewProcessingStats has run, no step of the batch changes
\* totalDevices or lowers successCount, and every step leaves the earlier
\* failedDevices as a prefix of the later one.
C30_StatsMonotonic ==
    [][mainPc # "call" =>
          /\ totalDevices' = totalDevices
          /\ successCount' >= successCount
          /\ Len(failedDevices') >= Len(failedDevices)
          /\ SubSeq(failedDevices', 1, Len(failedDevices)) = failedDevices]_vars

\* The second device was appended to failedDevices before the first, while
\* the caller was still waiting.
C30_Witness ==
    /\ Len(devices) = 2
    /\ failedDevices = <<devices[2], devices[1]>>
    /\ devices[1] # devices[2]
    /\ totalDevices = 2
    /\ successCount = 0
    /\ mainPc = "launch"

\* A command of the goroutine's own steps failed in transport: the shell
\* probe or the settings list of the permission check, or the reboot.
TransportError(rec) ==
    rec.shell = "fail" \/ rec.list = "fail" \/ rec.reboot = "no"

\* C31 as stated: a target that met a transport error or a permission
\* error has ended FAILED and is in the list of failed devices.
C31_ErrorFailsTarget ==
    \A i \in DOMAIN devices :
        (Terminated(g[i]) /\ (TransportError(g[i]) \/ g[i].perm = "no")) =>
            /\ TerminalOutcome(g[i]) = "FAILED"
            /\ InFailedDevices(i)

\* C31, amended: a target whose permission check failed, by a transport
\* error of one of its two commands or by an empty settings list, has
\* ended FAILED and is in the list of failed devices, while a target whose
\* reboot command failed has ended SUCCESS; the step that records a target
\* as failed changes nothing of the caller and of the other goroutines;
\* every other goroutine that has started and is not done can still take
\* its next step; and ProcessDevices has returned only with an outcome for
\* every target.
C31_ErrorStaysLocal ==
    /\ [](\A i \in DOMAIN devices :
            Terminated(g[i]) =>
                /\ g[i].perm = "no" =>
                      /\ TerminalOutcome(g[i]) = "FAILED"
                      /\ InFailedDevices(i)
                /\ (g[i].shell = "fail" \/ g[i].list = "fail") =>
                      g[i].perm = "no"
                /\ g[i].reboot = "no" => TerminalOutcome(g[i]) = "SUCCESS")
    /\ [](\A j \in DOMAIN devices :
            g[j].pc \notin {"idle", "done"} =>
                ENABLED DisableLockscreenOnDeviceAsync(j))
    /\ [](mainPc = "returned" =>
            \A i \in DOMAIN devices :
                TerminalOutcome(g[i]) \in {"SUCCESS", "FAILED"})
    /\ [][\A i \in DOMAIN devices :
            (TerminalOutcome(g[i]) = "none"
                /\ TerminalOutcome(g'[i]) = "FAILED") =>
                /\ mainPc' = mainPc
                /\ result' = result
                /\ wg' = wg
                /\ \A j \in DOMAIN devices : j # i => g'[j] = g[j]]_vars

\* The permission check of one target failed on a transport error, the
\* other target went through its reboot to SUCCESS, and ProcessDevices has
\* returned.
C31_Witness ==
    /\ mainPc = "returned"
    /\ \E i, j \in DOMAIN devices :
          /\ g[i].shell = "fail"
          /\ TerminalOutcome(g[i]) = "FAILED"
          /\ g[j].ready = "yes"
          /\ TerminalOutcome(g[j]) = "SUCCESS"

\* C32: a process that ended otherwise than by a signal has exit code 0
\* when the run completed, with or without failed targets, or printed the
\* help, and exit code 1 when adb was unavailable, when no device was
\* found, or when a panic reached main.
C32_ExitCodes ==
    (pr.pc = "exited" /\ pr.cause # "interrupt") =>
        /\ pr.cause \in {"completed", "help"} => pr.exit = 0
        /\ pr.cause \in {"unavailable", "nodevices", "panic"} => pr.exit = 1

\* C33: when `adb version` failed the devices are not listed, and when it
\* failed or the listing gave no device the process has ended with
\* ProcessDevices not called, no goroutine launched and no step taken for
\* any target, and nothing can run any more.
C33_HaltsBeforeBatch ==
    /\ pr.adb = "fail" => ~pr.listed
    /\ (pr.adb = "fail" \/ (pr.listed /\ Len(devices) = 0)) =>
          /\ pr.pc = "exited"
          /\ ~pr.summary
          /\ mainPc = "call"
          /\ launched = 0
          /\ result = <<>>
          /\ \A i \in Procs : g[i] = NewGoroutine
          /\ ~ENABLED NextRun

\* adb was unavailable and the process has ended without listing.
C33_Witness ==
    /\ pr.adb = "fail"
    /\ pr.pc = "exited"
    /\ pr.cause = "unavailable"
    /\ ~pr.listed

\* C34: from main's start to the process's end a signal can arrive or
\* is waiting in the channel; a waiting signal can be taken by the handler
\* at once, whatever the goroutines are doing; the handler's step ends the
\* process and changes nothing of the batch nor logs the summary; and in
\* an ended process no step of an orchestration, of ProcessDevices or of
\* the summary can be taken.
C34_InterruptExits ==
    /\ [](pr.pc \notin {"idle", "exited"} =>
            /\ pr.c = 1 \/ ENABLED Signal
            /\ pr.c = 1 => ENABLED SignalHandler)
    /\ [](pr.pc = "exited" =>
            /\ ~ENABLED RunProcess
            /\ ~ENABLED RunSummary
            /\ ~ENABLED NextRun)
    /\ [][(pr.cause # "interrupt" /\ pr'.cause = "interrupt") =>
            /\ pr'.pc = "exited"
            /\ pr'.summary = pr.summary
            /\ UNCHANGED batchVars]_vars

\* The process was ended by a signal while one orchestration was waiting
\* for its device after the reboot and another was still trying
\* strategies; no summary was logged.
C34_Witness ==
    /\ pr.cause = "interrupt"
    /\ pr.pc = "exited"
    /\ ~pr.summary
    /\ wg > 0
    /\ \E i, j \in DOMAIN devices : g[i].pc = "wait" /\ g[j].pc = "method"

\* C35: a call that returned gives failure with the text "Command timed
\* out" when the timeout killed the process, and gives that text for no
\* other failure: not for a process that exited non-zero by itself nor for
\* one that could not be started.
C35_TimedOutText ==
    rc.pc = "returned" =>
        /\ rc.proc = "timeout" =>
              /\ ~rc.ret.ok
              /\ rc.ret.err = "Command timed out"
        /\ rc.proc \in {"exitN", "nostart"} =>
              /\ ~rc.ret.ok
              /\ rc.ret.err # "Command timed out"

\* The statistics updates made so far: one for each call of a statistics
\* method by a goroutine.
UpdatesMade ==
    {<<i, n>> \in (DOMAIN devices) \X (1..2) : n \in DOMAIN g[i].calls}

\* C36: in every state of a batch successCount + len(failedDevices) is the
\* number of statistics updates the orchestrations have made, each
\* orchestration has made at most one, and the sum is at most
\* totalDevices; so is every snapshot GetStats can give.
C36_SumCountsUpdates ==
    /\ successCount + Len(failedDevices) = Cardinality(UpdatesMade)
    /\ \A i \in DOMAIN devices : Len(g[i].calls) <= 1
    /\ successCount + Len(failedDevices) <= totalDevices
    /\ GetStats[1] + Len(GetStats[2]) <= GetStats[3]

\* Two devices are being processed, one orchestration has made its update
\* and the other has not.
C36_Witness ==
    /\ mainPc = "launch"
    /\ totalDevices = 2
    /\ successCount + Len(failedDevices) = 1
    /\ \E i \in DOMAIN devices : g[i].pc \in {"wait", "validate"}

\* A goroutine holds a mutex.
Holds(i, mutex) == i \in mutex

\* Every orchestration has made its statistics update and returned, and
\* ProcessDevices has returned.
BatchOver ==
    /\ lm.pc = "returned"
    /\ \A i \in 1..lm.n : lm.t[i].at = "done"

\* C37: a batch never deadlocks and always completes.  No goroutine holds
\* the statistics mutex and the log mutex together, none holds either in
\* an external command or a sleep, a batch that is not over always has a
\* goroutine that can step, and with fair scheduling and commands that
\* return every launched orchestration reaches its end and ProcessDevices
\* returns.
C37_NoDeadlock ==
    /\ [](\A i \in Threads : ~(Holds(i, lm.mu) /\ Holds(i, lm.logMutex)))
    /\ [](\A i \in Threads :
            lm.t[i].at \in {"running", "sleeping"} =>
                ~Holds(i, lm.mu) /\ ~Holds(i, lm.logMutex))
    /\ [](lm.pc = "called" => ENABLED NextLocks)
    /\ \A i \in Procs : (lm.t[i].at # "idle") ~> (lm.t[i].at = "done")
    /\ (lm.pc = "called") ~> BatchOver

\* One orchestration is inside a statistics method while the other waits
\* for the log mutex that the caller of ProcessDevices holds.
C37_Witness ==
    /\ lm.n = 2
    /\ Holds(1, lm.mu)
    /\ Holds(0, lm.logMutex)
    /\ lm.t[2].at = "log"

\* C38: the list of failed devices ProcessDevices returned holds only
\* identifiers of the input, holds an identifier exactly when an
\* orchestration of it ended FAILED, and holds none twice, whatever the
\* input, one that repeats an identifier included.
C38_FailedIsSet ==
    mainPc = "returned" =>
        LET failed == result[2] IN
        /\ \A n \in DOMAIN failed :
              \E i \in DOMAIN devices : devices[i] = failed[n]
        /\ \A t \in Targets :
              (\E n \in DOMAIN failed : failed[n] = t)
                  <=> (\E i \in Ended("FAILED") : devices[i] = t)
        /\ \A m, n \in DOMAIN failed : failed[m] = failed[n] => m = n

\* C39: when the trust dump did not fire and `locksettings get-disabled`
\* succeeded with an output, empty or not, that does not contain "true",
\* the call has returned present by heuristic 2 with no later command
\* issued; and when the command failed or its output contains "true",
\* heuristic 2 returned nothing: the keyguard dump is the next command, and
\* a call that returned not present has issued all seven commands.
C39_LockSettingsHeuristic ==
    LET res == LockResult("getDisabled") IN
    LockIssued("getDisabled") =>
        /\ ~TrustFires(LockResult("trust"))
        /\ (res.ok /\ ~Contains(ToLower(res.out), "true")) =>
              /\ ce.pc = "returned"
              /\ ce.present
              /\ ce.by = 2
              /\ Len(ce.seen) = 2
        /\ (~res.ok \/ Contains(ToLower(res.out), "true")) =>
              /\ ce.pc # "getDisabled"
              /\ ce.pc = "returned" => LockIssued("keyguard")
              /\ (ce.pc = "returned" /\ ~ce.present) =>
                    Len(ce.seen) = Len(LockCommands)

\* get-disabled succeeded with empty output and the call returned present
\* at the second heuristic.
C39_Witness ==
    /\ ce.pc = "returned"
    /\ ce.present
    /\ ce.by = 2
    /\ LockResult("getDisabled") = [ok |-> TRUE, out |-> ""]

\* C40: a call decided by the window or the power heuristic returned
\* locked and one decided by the activity or the settings heuristic
\* returned not locked; when the window dump or the power dump gave its
\* signal the call returned locked without error and without issuing the
\* later commands, and the result is locked whatever those commands would
\* have returned; and a call returned not locked only after both the window
\* and the power command were issued and gave no signal.
C40_LockedTakesPrecedence ==
    cs.pc = "returned" =>
        LET firstTwo == \/ WindowShowsLock(StatusResult("window"))
                        \/ PowerShowsSleep(StatusResult("power"))
        IN
        /\ cs.by \in {1, 2} => cs.locked
        /\ cs.by \in {3, 4} => ~cs.locked
        /\ firstTwo =>
              /\ cs.locked /\ ~cs.err /\ cs.by \in {1, 2}
              /\ ~StatusIssued("activity")
              /\ ~StatusIssued("lsDisabled")
              /\ ~StatusIssued("getDisabled")
              /\ \A r \in StatusCommandResults :
                    (/\ r.window = StatusResult("window")
                     /\ StatusIssued("power") => r.power = StatusResult("power")
                     /\ ~StatusIssued("power") => WindowShowsLock(r.window))
                        => /\ CheckLockScreenStatus(r).locked
                           /\ ~CheckLockScreenStatus(r).err
        /\ ~cs.locked =>
              /\ StatusIssued("window") /\ StatusIssued("power")
              /\ ~firstTwo

\* The power dump showed the device asleep after the window dump showed
\* nothing: the call returned locked at the second command.
C40_Witness ==
    /\ cs.pc = "returned"
    /\ cs.locked
    /\ cs.by = 2
    /\ Len(cs.seen) = 2
    /\ cs.seen[1].ok

====
